---- MODULE Spec2Model ----
(***************************************************************************)
(* A model of packages/db/src/db.ts: the DB handle and its DBTransaction   *)
(* over a triple store with a _schema metadata namespace; of the           *)
(* schema-diff engine that packages/db/test/schema-checking.spec.ts tests; *)
(* and of the composable of packages/vue/src/useQuery.ts.                  *)
(*                                                                         *)
(* Strings that the code takes apart or puts together (entity ids) are     *)
(* sequences of tokens; a collection name is one token, '#' is one token.  *)
(* Attribute paths are sequences of strings.                               *)
(***************************************************************************)
EXTENDS Integers, Sequences, FiniteSets, TLC

VARIABLES
    store,      \* the triple store: [meta: _schema tuples, triples: data]
    mig,        \* the running DB.migrate call
    tx,         \* the running DB.transact / DB.insert / DB.update call
    clock,      \* the tick of the last commit timestamp
    px,         \* the running DBTransaction.update with its update proxy
    vs,         \* DB.variables, the subscription and the last fetch
    df,         \* the calls of the schema-diff engine
    handle,     \* a DB handle: its migrations, its migrate runs, its caller
    uq          \* the refs and subscriptions of one useQuery composable

vars == <<store, mig, tx, clock, px, vs, df, handle, uq>>

----------------------------------------------------------------------------
(* Bounds of the model *)

MaxOps == 2          \* operations in one up/down list
MaxVersion == 2      \* schema versions 0..MaxVersion
MaxMigrations == 2   \* migrations in one list given to migrate
MaxTick == 2         \* commits of data transactions
MaxTxOps == 2        \* inserts and updates inside one transaction
MaxValue == 1        \* leaf values 0..MaxValue
MaxStatements == 3   \* statements of one updater
MaxUpdates == 2      \* updateVariables calls; updateQuery calls
MaxCalls == 3        \* calls of the function subscribe returned
MaxDeliveries == 2   \* invocations of a subscription's callback
MaxPublicCalls == 1  \* public operations called on a DB under construction
MaxEntities == 1     \* entities of the DB a schema change is checked against

----------------------------------------------------------------------------
(* Values *)

None == "none"

ID_SEPARATOR == "#"

DEFAULT_STORE_KEY == "default"

\* The storage scopes configured for the store (new DB({sources})).
StorageKeys == {DEFAULT_STORE_KEY, "outbox"}

Collections == {"todos"}
Paths == {"a", "b"}

appendCollectionToId(collectionName, id) ==
    <<collectionName, ID_SEPARATOR>> \o id

----------------------------------------------------------------------------
(* The _schema namespace: tuples [a |-> attribute path, v |-> value] of    *)
(* the entity '_schema', at most one per attribute path.                   *)

IsPrefix(p, s) ==
    /\ Len(p) <= Len(s)
    /\ \A k \in 1..Len(p) : s[k] = p[k]

\* TripleStoreTransaction.readMetadataTuples('_schema', prefix)
readMetadataTuples(meta, prefix) == {t \in meta : IsPrefix(prefix, t.a)}

\* TripleStoreTransaction.updateMetadataTuples: upsert by attribute path
updateMetadataTuples(meta, updates) ==
    {t \in meta : \A u \in updates : u.a # t.a} \cup updates

\* TripleStoreTransaction.deleteMetadataTuples([entity, attribute] pairs)
deleteMetadataTuples(meta, deletes) == {t \in meta : t.a \notin deletes}

\* TripleStore.readSchema(): undefined when _schema holds nothing; the
\* result is a record, "defined" telling whether it is a schema at all and
\* "hasVersion" whether its version is set.
readSchema(meta) ==
    LET versions == {t \in meta : t.a = <<"version">>} IN
    [defined |-> meta # {},
     hasVersion |-> versions # {},
     version |-> IF versions # {} THEN (CHOOSE t \in versions : TRUE).v ELSE 0,
     tuples |-> readMetadataTuples(meta, <<"collections">>)]

\* tx.getSchema() as a condition: if (await this.getSchema())
hasSchema(meta) == readSchema(meta).defined

\* tripleSchema?.version ?? 0
dbVersionOf(meta) ==
    LET tripleSchema == readSchema(meta) IN
    IF ~tripleSchema.defined THEN 0
    ELSE IF ~tripleSchema.hasVersion THEN 0
    ELSE tripleSchema.version

----------------------------------------------------------------------------
(* Data triples: [scope, id, attribute, value, ts, expired]                *)

Triple(scope, id, attribute, value, ts) ==
    [scope |-> scope, id |-> id, attribute |-> attribute, value |-> value,
     ts |-> ts, expired |-> FALSE]

\* TripleStoreTransaction.findByAttribute(attribute) within one scope
findByAttribute(triples, storageKey, attribute) ==
    {t \in triples : t.scope = storageKey /\ IsPrefix(attribute, t.attribute)}

\* fullAttribute.splice(0, attribute.length, ...newAttribute)
Splice(fullAttribute, n, newAttribute) ==
    newAttribute \o SubSeq(fullAttribute, n + 1, Len(fullAttribute))

\* A transform that gives every triple the new attribute itself
TransformToNewAttribute(triples, attribute, newAttribute) ==
    {[t EXCEPT !.attribute = newAttribute] : t \in triples}

transformTripleAttribute(triples, attribute, newAttribute) ==
    {[t EXCEPT !.attribute = Splice(t.attribute, Len(attribute), newAttribute)]
        : t \in triples}

----------------------------------------------------------------------------
(* Schema operations of DBTransaction, as functions of the transaction's   *)
(* working copy s = [meta, triples].                                       *)

RuleTypes == {"read", "write", "update"}

\* ruleToTuple: one tuple per key of the rule object
ruleToTuple(collectionName, ruleType, index, rule) ==
    {[a |-> <<"collections", collectionName, "rules", ruleType, index, key>>,
      v |-> rule[key]] : key \in DOMAIN rule}

createCollection(s, params) ==
    LET attributeTuples ==
            {[a |-> <<"collections", params.name, "attributes", path, "type">>,
              v |-> params.attributes[path]] : path \in DOMAIN params.attributes}
        ruleTuples ==
            IF ~params.hasRules THEN {}
            ELSE UNION {UNION {ruleToTuple(params.name, ruleType, i - 1,
                                           params.rules[ruleType][i])
                                 : i \in DOMAIN params.rules[ruleType]}
                          : ruleType \in RuleTypes \cap DOMAIN params.rules}
    IN [s EXCEPT !.meta = updateMetadataTuples(@, attributeTuples \cup ruleTuples)]

\* A drop that also deletes the data triples of the collection
DropCollectionAndData(s, params) ==
    LET existingAttributeInfo ==
            readMetadataTuples(s.meta, <<"collections", params.name>>)
        deletes == {eav.a : eav \in existingAttributeInfo}
    IN [meta |-> deleteMetadataTuples(s.meta, deletes),
        triples |-> {t \in s.triples : t.attribute[1] # params.name}]

dropCollection(s, params) ==
    LET existingAttributeInfo ==
            readMetadataTuples(s.meta, <<"collections", params.name>>)
        deletes == {eav.a : eav \in existingAttributeInfo}
    IN [s EXCEPT !.meta = deleteMetadataTuples(@, deletes)]

\* attr.splice(3, 1, newPath)
RenameTuple(eav, newPath) == [eav EXCEPT !.a[4] = newPath]

\* One storage scope of renameAttribute's loop over the scopes
RenameInScope(triples, storageKey, attribute, newAttribute) ==
    LET currentTriples == findByAttribute(triples, storageKey, attribute)
        newTriples ==
            transformTripleAttribute(currentTriples, attribute, newAttribute)
    IN (triples \ currentTriples) \cup newTriples

\* A loop that visits the default scope only
RenameInDefaultScope(triples, keys, attribute, newAttribute) ==
    RenameInScope(triples, DEFAULT_STORE_KEY, attribute, newAttribute)

RECURSIVE RenameInScopes(_, _, _, _)
RenameInScopes(triples, keys, attribute, newAttribute) ==
    IF keys = {} THEN triples
    ELSE LET storageKey == CHOOSE k \in keys : TRUE IN
         RenameInScopes(
            RenameInScope(triples, storageKey, attribute, newAttribute),
            keys \ {storageKey}, attribute, newAttribute)

renameAttribute(s, params) ==
    LET existingAttributeInfo ==
            readMetadataTuples(s.meta,
                <<"collections", params.collection, "attributes", params.path>>)
        deletes == {eav.a : eav \in existingAttributeInfo}
        updates == {RenameTuple(eav, params.newPath) : eav \in existingAttributeInfo}
        meta1 ==
            IF hasSchema(s.meta)
            THEN updateMetadataTuples(deleteMetadataTuples(s.meta, deletes), updates)
            ELSE s.meta
    IN [meta |-> meta1,
        triples |-> RenameInScopes(s.triples, StorageKeys,
                        <<params.collection, params.path>>,
                        <<params.collection, params.newPath>>)]

addAttribute(s, params) ==
    LET updates ==
            {[a |-> <<"collections", params.collection, "attributes",
                      params.path, key>>,
              v |-> params.attribute[key]] : key \in DOMAIN params.attribute}
    IN IF hasSchema(s.meta)
       THEN [s EXCEPT !.meta = updateMetadataTuples(@, updates)]
       ELSE s

dropAttribute(s, params) ==
    LET existingAttributeInfo ==
            readMetadataTuples(s.meta,
                <<"collections", params.collection, "attributes", params.path>>)
        deletes == {eav.a : eav \in existingAttributeInfo}
    IN IF hasSchema(s.meta)
       THEN [s EXCEPT !.meta = deleteMetadataTuples(@, deletes)]
       ELSE s

----------------------------------------------------------------------------
(* Migrations *)

CreateTodos ==
    <<"create_collection",
      [name |-> "todos", attributes |-> [a |-> "string"], hasRules |-> FALSE,
       rules |-> <<>>]>>
DropTodos == <<"drop_collection", [name |-> "todos"]>>
AddB ==
    <<"add_attribute",
      [collection |-> "todos", path |-> "b", attribute |-> [type |-> "number"]]>>
DropA == <<"drop_attribute", [collection |-> "todos", path |-> "a"]>>
RenameAB ==
    <<"rename_attribute", [collection |-> "todos", path |-> "a", newPath |-> "b"]>>
\* An operation name the switch of applyRemoteTransaction does not know
Unrecognized == <<"truncate_collection", [name |-> "todos"]>>

DBOperations == {CreateTodos, DropTodos, AddB, DropA, RenameAB, Unrecognized}

\* The migrations given to migrate: any version and any parent.  The list
\* migration[direction] is read one operation at a time inside the
\* transaction, so each operation is drawn when the loop reaches it.
Migrations == [version : 0..MaxVersion, parent : 0..MaxVersion]

\* A gate that compares the parent in both directions
canMigrateByParent(migration, direction, dbVersion) ==
    migration.parent = dbVersion

canMigrate(migration, direction, dbVersion) ==
    IF direction = "up"
    THEN migration.parent = dbVersion
    ELSE migration.version = dbVersion

IsRecognized(operation) ==
    operation[1] \in {"create_collection", "drop_collection", "rename_attribute",
                      "add_attribute", "drop_attribute"}

\* One turn of the loop in applyRemoteTransaction: the switch on operation[0],
\* on the transaction's working copy s
RunOperation(s, operation) ==
    CASE operation[1] = "create_collection" ->
            [error |-> None, store |-> createCollection(s, operation[2])]
      [] operation[1] = "drop_collection" ->
            [error |-> None, store |-> dropCollection(s, operation[2])]
      [] operation[1] = "rename_attribute" ->
            [error |-> None, store |-> renameAttribute(s, operation[2])]
      [] operation[1] = "add_attribute" ->
            [error |-> None, store |-> addAttribute(s, operation[2])]
      [] operation[1] = "drop_attribute" ->
            [error |-> None, store |-> dropAttribute(s, operation[2])]
      [] OTHER ->
            [error |-> "InvalidMigrationOperation", store |-> s]

\* TripleStore.transact(callback): what the store holds once the callback has
\* ended, having thrown (cancel) or returned (commit), and not cancelled itself
TripleStoreTransact(base, work, threw) ==
    IF threw THEN base ELSE work

\* A callback that catches the failure of an operation and returns
ApplyRemoteTransactionSwallow(base, work, error) ==
    TripleStoreTransact(base, work, FALSE)

\* How applyRemoteTransaction's callback ends: an error of the switch is not
\* caught, it leaves the callback
applyRemoteTransactionEnd(base, work, error) ==
    TripleStoreTransact(base, work, error # None)

----------------------------------------------------------------------------
(* DB.migrate(migrations, direction), one step per await.  The list is     *)
(* read one migration at a time, so each migration is drawn when the loop  *)
(* reaches it.                                                             *)

NoMigration == [version |-> 0, parent |-> 0]
EmptyStore == [meta |-> {}, triples |-> {}]

\* pc: where the call is; i: migrations examined and left behind; k: the
\* operations of the current migration run so far; work: the working copy
\* of the open transaction; pre: the store when the current migration was
\* examined; last: what happened to the migration examined last.
MigIdle ==
    [pc |-> "idle", direction |-> "up", i |-> 0, migration |-> NoMigration,
     dbVersion |-> 0, k |-> 0, work |-> EmptyStore, pre |-> EmptyStore,
     error |-> None, last |-> None]

\* handle.  migrations: the list the handle was given; run: the migrate runs
\* completed with it; initial, first: the store before the first run and
\* after it; pc, name, calls: the public operation called on the handle.
HandleIdle ==
    [migrations |-> <<>>, run |-> 0, initial |-> EmptyStore,
     first |-> EmptyStore, pc |-> "idle", name |-> "none", calls |-> 0,
     read |-> [name |-> "none", on |-> "db", collectionName |-> "",
               entities |-> {}],
     sub |-> [on |-> FALSE, collectionName |-> "", where |-> {}]]

\* uq.  Queries are numbered as they are built; 0 stands for undefined.
\* query: builtQuery; results, error: the query whose results or error the
\* ref holds; watched: the query the effects ran for last; subs: the
\* queries with a subscription that was not unsubscribed; asked: the
\* queries with an isFirstTimeFetchingQuery promise not yet resolved;
\* current: the subscription for builtQuery has delivered.
UqIdle ==
    [query |-> 0, results |-> 0, error |-> 0, isInitialFetch |-> TRUE,
     fetchingLocal |-> TRUE, fetchingRemote |-> FALSE,
     hasResponseFromServer |-> FALSE, status |-> "CLOSED", watched |-> 0,
     subs |-> {}, asked |-> {}, current |-> FALSE]

\* A ternary that forgets the direction
VersionTupleOfVersion(migration, direction) ==
    [a |-> <<"version">>, v |-> migration.version]

\* A version write that records where the migration started from
VersionTupleOfParent(migration, direction) ==
    [a |-> <<"version">>, v |-> migration.parent]

\* The version tuple migrate writes after a migration was applied
VersionTuple(migration, direction) ==
    [a |-> <<"version">>,
     v |-> IF direction = "up" THEN migration.version ELSE migration.parent]

\* A catch that logs the error and goes on
MigrateCatchAndGoOn(error) == "setVersion"

\* try { await applyRemoteTransaction } catch (e) { log; throw e }: where
\* migrate is after the transaction ended with `error`
migrateAfterApply(error) ==
    IF error = None THEN "setVersion" ELSE "rejected"

MigrateCall(direction) ==
    /\ mig.pc = "idle"
    /\ mig' = [mig EXCEPT !.pc = "loop", !.direction = direction]
    /\ UNCHANGED <<store, tx, clock, px, vs, df, handle, uq>>

\* for (const migration of migrations): readSchema, then the gate; when it
\* passes, applyRemoteTransaction opens its transaction
MigrateExamine(migration) ==
    /\ mig.pc = "loop"
    /\ mig.i < MaxMigrations
    /\ LET dbVersion == dbVersionOf(store.meta) IN
       IF canMigrate(migration, mig.direction, dbVersion)
       THEN mig' = [mig EXCEPT !.pc = "apply", !.migration = migration,
                               !.dbVersion = dbVersion, !.k = 0,
                               !.work = store, !.pre = store, !.last = "gate"]
       ELSE mig' = [mig EXCEPT !.i = @ + 1, !.migration = migration,
                               !.dbVersion = dbVersion, !.pre = store,
                               !.last = "skipped"]
    /\ UNCHANGED <<store, tx, clock, px, vs, df, handle, uq>>

\* for (const operation of operations): one operation inside the transaction;
\* a failure ends the transaction and is rethrown by migrate's catch
MigrateOperation(operation) ==
    /\ mig.pc = "apply"
    /\ mig.k < MaxOps
    /\ LET r == RunOperation(mig.work, operation) IN
       IF r.error = None
       THEN /\ mig' = [mig EXCEPT !.k = @ + 1, !.work = r.store]
            /\ UNCHANGED store
       ELSE /\ store' = applyRemoteTransactionEnd(store, mig.work, r.error)
            /\ mig' = [mig EXCEPT !.pc = migrateAfterApply(r.error),
                                   !.error = r.error, !.last = "failed"]
    /\ UNCHANGED <<tx, clock, px, vs, df, handle, uq>>

\* The operations are exhausted: the transaction commits
MigrateCommit ==
    /\ mig.pc = "apply"
    /\ store' = applyRemoteTransactionEnd(store, mig.work, None)
    /\ mig' = [mig EXCEPT !.pc = migrateAfterApply(None), !.last = "applied"]
    /\ UNCHANGED <<tx, clock, px, vs, df, handle, uq>>

\* await this.tripleStore.updateMetadataTuples([['_schema', ['version'], v]])
MigrateSetVersion ==
    /\ mig.pc = "setVersion"
    /\ store' = [store EXCEPT !.meta =
            updateMetadataTuples(@, {VersionTuple(mig.migration, mig.direction)})]
    /\ mig' = [mig EXCEPT !.pc = "loop", !.i = @ + 1, !.last = "versioned"]
    /\ UNCHANGED <<tx, clock, px, vs, df, handle, uq>>

\* The list is exhausted: migrate resolves
MigrateReturn ==
    /\ mig.pc = "loop"
    /\ mig' = [mig EXCEPT !.pc = "resolved"]
    /\ UNCHANGED <<store, tx, clock, px, vs, df, handle, uq>>

----------------------------------------------------------------------------
(* Documents.  A plain document maps attribute names to leaf values; a     *)
(* timestamped one maps them to <<value, timestamp>>.                      *)

Attrs == {"n", "m"}
Values == 0..MaxValue

\* The documents given to insert: with a value at n, or with no attribute
Docs == UNION {[A -> Values] : A \in {{}, {"n"}}}

\* What an updater stages: a value for one path
Changes == UNION {[A -> Values] : A \in {{"n"}, {"m"}}}

\* The optional id argument of insert
NoId == [given |-> FALSE, value |-> <<>>]
GivenIds == {[given |-> TRUE, value |-> v] : v \in {<<"x">>, <<"x", "#", "y">>}}
\* What nanoid() returns: an id over A-Za-z0-9_-
GeneratedIds == {<<"g">>}
\* The entityId argument of update and fetchById
EntityIds == {<<"x">>, <<"x", "#", "y">>}

Includes(str, ch) == \E k \in 1..Len(str) : str[k] = ch

\* A check that accepts every id
ValidateNothing(id) == None

\* validateExternalId: the error, or None
validateExternalId(id) ==
    IF Includes(id, ID_SEPARATOR) THEN "InvalidEntityId" ELSE None

\* if (id) { ... }: the empty string is falsy
IdTruthy(id) == id.given /\ id.value # <<>>

\* schema.ts objectToTimestampedObject
objectToTimestampedObject(doc) == [a \in DOMAIN doc |-> <<doc[a], 0>>]

\* schema.ts timestampedObjectToPlainObject
timestampedObjectToPlainObject(entity) ==
    [a \in DOMAIN entity |-> entity[a][1]]

----------------------------------------------------------------------------
(* Rules of a collection, read from the schema *)

Range(f) == {f[x] : x \in DOMAIN f}

\* schema.rules[ruleType]: the rules of the collection, as stored tuples
RuleTuples(meta, collectionName, ruleType) ==
    {t \in readMetadataTuples(meta,
                <<"collections", collectionName, "rules", ruleType>>) :
        t.a[6] = "filter"}

\* schema?.rules?.write?.length, and the truthiness of schema?.rules?.read
HasRules(meta, collectionName, ruleType) ==
    RuleTuples(meta, collectionName, ruleType) # {}

\* rules.flatMap((r) => r.filter)
RuleFilters(meta, collectionName, ruleType) ==
    UNION {Range(t.v) : t \in RuleTuples(meta, collectionName, ruleType)}

\* collection-query.ts: one filter statement [path, op, value] against the
\* current value at the path; a missing path compares as null
isOperatorSatisfied(entity, statement) ==
    LET present == statement[1] \in DOMAIN entity
    IN CASE statement[2] = "=" -> present /\ entity[statement[1]][1] = statement[3]
         [] statement[2] = "!=" ->
                ~present \/ entity[statement[1]][1] # statement[3]

\* collection-query.ts doesEntityObjMatchWhere on a timestamped entity
doesEntityObjMatchWhere(entity, where) ==
    \A statement \in where : isOperatorSatisfied(entity, statement)

----------------------------------------------------------------------------
(* Reads and writes of a transaction on its working set of triples *)

EntityTriples(triples, id) == {t \in triples : t.id = id /\ ~t.expired}

\* The current triple of each attribute of the entity: the latest one
CurrentTriples(triples, id) ==
    {t \in EntityTriples(triples, id) :
        /\ t.attribute[1] # "_collection"
        /\ \A u \in EntityTriples(triples, id) :
              u.attribute = t.attribute => u.ts <= t.ts}

\* TripleStoreTransaction.getEntity: the timestamped object of the entity
getEntity(triples, id) ==
    LET current == CurrentTriples(triples, id)
    IN [a \in {t.attribute[2] : t \in current} |->
          LET t == CHOOSE t \in current : t.attribute[2] = a
          IN <<t.value, t.ts>>]

\* A write of the transaction at its timestamp: it replaces what the same
\* transaction wrote at the attribute before
PutTriple(triples, t) ==
    {u \in triples : ~(u.scope = t.scope /\ u.id = t.id
                        /\ u.attribute = t.attribute /\ u.ts = t.ts)} \cup {t}

RECURSIVE PutTriples(_, _)
PutTriples(triples, new) ==
    IF new = {} THEN triples
    ELSE LET t == CHOOSE t \in new : TRUE
         IN PutTriples(PutTriple(triples, t), new \ {t})

\* document.ts insert: the marker triple and one triple per leaf
DocumentTriples(id, doc, collectionName, ts) ==
    {Triple(DEFAULT_STORE_KEY, id, <<"_collection">>, collectionName, ts)}
    \cup {Triple(DEFAULT_STORE_KEY, id, <<collectionName, a>>, doc[a], ts)
            : a \in DOMAIN doc}

DocumentInsert(triples, id, doc, collectionName, ts) ==
    PutTriples(triples, DocumentTriples(id, doc, collectionName, ts))

\* The setValue calls of update, one per staged path
ChangeTriples(id, changes, collectionName, ts) ==
    {Triple(DEFAULT_STORE_KEY, id, <<collectionName, a>>, changes[a], ts)
        : a \in DOMAIN changes}

\* fetchById (DBTransaction and DB): null when there is no entity or when
\* a read rule fails; the timestamped entity when the collection has read
\* rules; the plain document otherwise
fetchById(meta, triples, collectionName, id) ==
    LET fullId == appendCollectionToId(collectionName, id)
        entity == getEntity(triples, fullId)
    IN IF EntityTriples(triples, fullId) = {}
       THEN [kind |-> "null", doc |-> <<>>]
       ELSE IF HasRules(meta, collectionName, "read")
       THEN IF doesEntityObjMatchWhere(entity,
                    RuleFilters(meta, collectionName, "read"))
            THEN [kind |-> "timestamped", doc |-> entity]
            ELSE [kind |-> "null", doc |-> <<>>]
       ELSE [kind |-> "plain", doc |-> timestampedObjectToPlainObject(entity)]

----------------------------------------------------------------------------
(* insert and update of a DBTransaction, as functions of the working set:  *)
(* the error thrown (None when none), the working set afterwards, and      *)
(* whether the call got as far as reading the store and as writing to it.  *)

\* if (schema?.rules?.write?.length) { ... doesEntityObjMatchWhere ... }
satisfiesWriteRules(meta, collectionName, timestampDoc) ==
    HasRules(meta, collectionName, "write") =>
        doesEntityObjMatchWhere(timestampDoc,
            RuleFilters(meta, collectionName, "write"))

\* if (id) { validateExternalId(id) } of insert
validateGivenId(id) ==
    IF IdTruthy(id) THEN validateExternalId(id.value) ELSE None

\* id ?? nanoid()
IdOrGenerated(id, generated) == IF id.given THEN id.value ELSE generated

\* An insert that writes the document before it checks the write rules
InsertThenCheck(meta, triples, collectionName, doc, id, generated, ts) ==
    LET fullId == appendCollectionToId(collectionName, IdOrGenerated(id, generated))
        written == DocumentInsert(triples, fullId, doc, collectionName, ts)
    IN IF validateGivenId(id) # None
       THEN [error |-> validateGivenId(id), triples |-> triples,
             read |-> FALSE, wrote |-> FALSE]
       ELSE IF ~satisfiesWriteRules(meta, collectionName,
                                    objectToTimestampedObject(doc))
       THEN [error |-> "WriteRuleViolation", triples |-> written,
             read |-> TRUE, wrote |-> TRUE]
       ELSE [error |-> None, triples |-> written, read |-> TRUE, wrote |-> TRUE]

\* DBTransaction.insert, and DB.insert up to its transaction
insert(meta, triples, collectionName, doc, id, generated, ts) ==
    LET fullId == appendCollectionToId(collectionName, IdOrGenerated(id, generated))
    IN IF validateGivenId(id) # None
       THEN [error |-> validateGivenId(id), triples |-> triples,
             read |-> FALSE, wrote |-> FALSE]
       ELSE IF ~satisfiesWriteRules(meta, collectionName,
                                    objectToTimestampedObject(doc))
       THEN [error |-> "WriteRuleViolation", triples |-> triples,
             read |-> TRUE, wrote |-> FALSE]
       ELSE [error |-> None,
             triples |-> DocumentInsert(triples, fullId, doc, collectionName, ts),
             read |-> TRUE, wrote |-> TRUE]

\* An update that checks the write rules on the entity it fetched first
UpdateCheckingFetched(meta, triples, collectionName, entityId, changes, ts) ==
    LET entity == fetchById(meta, triples, collectionName, entityId)
        fullEntityId == appendCollectionToId(collectionName, entityId)
        written == PutTriples(triples,
                      ChangeTriples(fullEntityId, changes, collectionName, ts))
    IN IF entity.kind = "null"
       THEN [error |-> "EntityNotFound", triples |-> triples,
             read |-> TRUE, wrote |-> FALSE, called |-> FALSE]
       ELSE IF ~satisfiesWriteRules(meta, collectionName,
                                    objectToTimestampedObject(entity.doc))
       THEN [error |-> "WriteRuleViolation", triples |-> written,
             read |-> TRUE, wrote |-> TRUE, called |-> TRUE]
       ELSE [error |-> None, triples |-> written, read |-> TRUE, wrote |-> TRUE,
             called |-> TRUE]

\* An update that does not look whether the entity exists
UpdateWithoutEntityCheck(meta, triples, collectionName, entityId, changes, ts) ==
    LET fullEntityId == appendCollectionToId(collectionName, entityId)
        written == PutTriples(triples,
                      ChangeTriples(fullEntityId, changes, collectionName, ts))
    IN [error |-> None, triples |-> written, read |-> TRUE, wrote |-> TRUE,
        called |-> TRUE]

\* DBTransaction.update, the updater having staged `changes`: the values are
\* written with setValue, then the write rules are checked on the entity as
\* fetchById returns it after the writes.  (The schemas of this model give
\* no read rules to a collection that has write rules, so updatedEntity is
\* a plain document.)
update(meta, triples, collectionName, entityId, changes, ts) ==
    LET entity == fetchById(meta, triples, collectionName, entityId)
        fullEntityId == appendCollectionToId(collectionName, entityId)
        written == PutTriples(triples,
                      ChangeTriples(fullEntityId, changes, collectionName, ts))
        updatedEntity == fetchById(meta, written, collectionName, entityId)
    IN IF entity.kind = "null"
       THEN [error |-> "EntityNotFound", triples |-> triples,
             read |-> TRUE, wrote |-> FALSE, called |-> FALSE]
       ELSE IF ~satisfiesWriteRules(meta, collectionName,
                                    objectToTimestampedObject(updatedEntity.doc))
       THEN [error |-> "WriteRuleViolation", triples |-> written,
             read |-> TRUE, wrote |-> TRUE, called |-> TRUE]
       ELSE [error |-> None, triples |-> written, read |-> TRUE, wrote |-> TRUE,
             called |-> TRUE]

\* A catch that cancels the transaction and swallows the exception
TransactCatchSwallow(thrown) ==
    [cancelled |-> thrown # None, rethrown |-> None]

\* try { await callback(tx) } catch (e) { await tx.cancel(); throw e }
transactCatch(thrown) ==
    [cancelled |-> thrown # None, rethrown |-> thrown]

\* DB.transact once its callback has ended, having thrown `thrown` or
\* returned (None): the triples of the store, and the error it rejects with
transactEnd(base, work, thrown) ==
    LET c == transactCatch(thrown)
    IN [error |-> c.rethrown,
        triples |-> IF c.cancelled THEN base
                    ELSE TripleStoreTransact(base, work, c.rethrown # None)]

\* What the callback of DB.transact may return, as JSON text
CallbackValues == {"undefined", "a"}

\* async (tripTx) => { ...; try { await callback(tx); } catch ... }: the
\* function given to tripleStore.transact returns nothing
innerCallback(value) == "undefined"

\* What tripleStore.transact resolves to: the value of the function it was
\* given, or the timestamp of the transaction (DB.insert calls it timestamp)
TripleStoreTransactResults(inner) == {inner, "timestamp"}

----------------------------------------------------------------------------
(* The call in progress *)

\* The call record of DB.transact, DB.update and DB.insert.  pc: where the
\* call is; ts: the commit timestamp of its transaction; work: the working
\* set of the transaction; pre: the triples of the store when the call
\* began; n: the inserts and updates made so far; pending: the error the
\* last insert/update threw into the callback; thrown: what the callback
\* threw; error: what the call rejected with; violated: an update of this
\* transaction raised WriteRuleViolation; op: the last insert/update, with
\* the working set before it and whether the updater was called.
\* fetched: what DB.fetchById returned.  returned: what the callback
\* returned; result: what the call resolved to.
NotFetched == [kind |-> None, doc |-> <<>>]

NoOp ==
    [name |-> None, doc |-> <<>>, id |-> NoId, entityId |-> <<>>,
     error |-> None, read |-> FALSE, wrote |-> FALSE, called |-> FALSE,
     before |-> {}]

TxIdle ==
    [pc |-> "idle", kind |-> None, ts |-> 0, work |-> {}, pre |-> {}, n |-> 0,
     pending |-> None, ended |-> None, thrown |-> None, error |-> None,
     violated |-> FALSE, op |-> NoOp, fetched |-> NotFetched,
     returned |-> None, result |-> None]

----------------------------------------------------------------------------
(* DB.transact(callback), DB.update and DB.insert.  The callback is any    *)
(* sequence of tx.insert and tx.update calls; it may catch what they throw *)
(* or let it escape, and may throw an error of its own.                    *)

CallOver == tx.pc \in {"idle", "resolved", "rejected"}

\* db.transact(callback) and db.update(...): the transaction opens
Transact(kind) ==
    /\ CallOver
    /\ clock < MaxTick
    /\ tx' = [TxIdle EXCEPT !.pc = "callback", !.kind = kind, !.ts = clock + 1,
                            !.work = store.triples, !.pre = store.triples]
    /\ UNCHANGED <<store, mig, clock, px, vs, df, handle, uq>>

\* await tx.insert(collectionName, doc, id) inside the callback
TxInsert(collectionName, doc, id, generated) ==
    /\ tx.pc = "callback"
    /\ tx.kind = "transact"
    /\ tx.n < MaxTxOps
    /\ LET r == insert(store.meta, tx.work, collectionName, doc, id,
                       generated, tx.ts)
       IN tx' = [tx EXCEPT
                    !.pc = IF r.error = None THEN "callback" ELSE "thrown",
                    !.n = @ + 1, !.work = r.triples, !.pending = r.error,
                    !.op = [name |-> "insert", doc |-> doc, id |-> id,
                            entityId |-> <<>>, error |-> r.error,
                            read |-> r.read, wrote |-> r.wrote, called |-> FALSE,
                            before |-> tx.work]]
    /\ UNCHANGED <<store, mig, clock, px, vs, df, handle, uq>>

\* await tx.update(collectionName, entityId, updater) inside the callback;
\* it is the whole callback of db.update
TxUpdate(collectionName, entityId, changes) ==
    /\ tx.pc = "callback"
    /\ tx.n < (IF tx.kind = "update" THEN 1 ELSE MaxTxOps)
    /\ LET r == update(store.meta, tx.work, collectionName, entityId,
                       changes, tx.ts)
       IN tx' = [tx EXCEPT
                    !.pc = IF r.error = None THEN "callback" ELSE "thrown",
                    !.n = @ + 1, !.work = r.triples, !.pending = r.error,
                    !.violated = @ \/ r.error = "WriteRuleViolation",
                    !.op = [name |-> "update", doc |-> changes, id |-> NoId,
                            entityId |-> entityId, error |-> r.error,
                            read |-> r.read, wrote |-> r.wrote,
                            called |-> r.called,
                            before |-> tx.work]]
    /\ UNCHANGED <<store, mig, clock, px, vs, df, handle, uq>>

\* The callback catches what the insert/update threw and goes on
CallbackCatches ==
    /\ tx.pc = "thrown"
    /\ tx.kind = "transact"
    /\ tx' = [tx EXCEPT !.pc = "callback", !.pending = None]
    /\ UNCHANGED <<store, mig, clock, px, vs, df, handle, uq>>

\* The callback has thrown e: the catch of transact, and the call's end
CallbackThrew(e) ==
    LET r == transactEnd(store.triples, tx.work, e)
    IN /\ store' = [store EXCEPT !.triples = r.triples]
       /\ tx' = [tx EXCEPT !.pc = IF r.error = None THEN "resolved" ELSE "rejected",
                           !.ended = "threw", !.thrown = e, !.error = r.error]
       /\ clock' = IF r.triples = tx.work /\ r.error = None THEN tx.ts ELSE clock
       /\ UNCHANGED <<mig, px, vs, df, handle, uq>>

\* The callback lets what the insert/update threw escape
CallbackRethrows ==
    /\ tx.pc = "thrown"
    /\ CallbackThrew(tx.pending)

\* The callback throws an error of its own
CallbackThrows ==
    /\ tx.pc = "callback"
    /\ tx.kind = "transact"
    /\ CallbackThrew("Error")

\* The callback returns value: the transaction commits and the call
\* resolves to what tripleStore.transact resolves to
CallbackReturns(value, result) ==
    /\ tx.pc = "callback"
    /\ tx.kind = "update" => tx.n = 1 /\ value = "undefined"
    /\ result \in TripleStoreTransactResults(innerCallback(value))
    /\ LET r == transactEnd(store.triples, tx.work, None)
       IN /\ store' = [store EXCEPT !.triples = r.triples]
          /\ tx' = [tx EXCEPT !.pc = "resolved", !.ended = "returned",
                              !.error = r.error, !.returned = value,
                              !.result = result]
    /\ clock' = tx.ts
    /\ UNCHANGED <<mig, px, vs, df, handle, uq>>

\* db.insert(collectionName, doc, id): the checks, then a transaction of
\* its own around Document.insert
DBInsert(collectionName, doc, id, generated) ==
    /\ CallOver
    /\ clock < MaxTick
    /\ LET r == insert(store.meta, store.triples, collectionName, doc, id,
                       generated, clock + 1)
       IN /\ store' = [store EXCEPT !.triples =
                          TripleStoreTransact(store.triples, r.triples,
                                              r.error # None)]
          /\ tx' = [TxIdle EXCEPT
                      !.pc = IF r.error = None THEN "resolved" ELSE "rejected",
                      !.kind = "insert", !.ts = clock + 1, !.n = 1,
                      !.work = r.triples, !.pre = store.triples,
                      !.error = r.error,
                      !.op = [name |-> "insert", doc |-> doc, id |-> id,
                              entityId |-> <<>>, error |-> r.error,
                              read |-> r.read, wrote |-> r.wrote, called |-> FALSE,
                              before |-> store.triples]]
          /\ clock' = IF r.error = None THEN clock + 1 ELSE clock
    /\ UNCHANGED <<mig, px, vs, df, handle, uq>>

\* db.fetchById(collectionName, id)
DBFetchById(collectionName, id) ==
    /\ CallOver
    /\ tx' = [TxIdle EXCEPT
                !.pc = "resolved", !.kind = "fetchById",
                !.work = store.triples, !.pre = store.triples,
                !.op = [NoOp EXCEPT !.name = "fetchById", !.entityId = id,
                                    !.read = TRUE, !.before = store.triples],
                !.fetched = fetchById(store.meta, store.triples,
                                      collectionName, id)]
    /\ UNCHANGED <<store, mig, clock, px, vs, df, handle, uq>>

----------------------------------------------------------------------------
(* The update proxy.  A plain object is the function from the paths of its *)
(* leaves to their values; JS values are written as their JSON text.  A    *)
(* JSON pointer is the sequence of its tokens: "/a/b" is <<"/","a","/","b">>. *)

\* [prefix, prop].join('/')
PointerJoin(prefix, prop) == prefix \o <<"/", prop>>

\* pointer.slice(1).split('/')
PointerToPath(pointer) == [i \in 1..(Len(pointer) \div 2) |-> pointer[2 * i]]

RECURSIVE PathToPointer(_)
PathToPointer(path) ==
    IF path = <<>> THEN <<>>
    ELSE PointerJoin(PathToPointer(SubSeq(path, 1, Len(path) - 1)),
                     path[Len(path)])

\* What an expression of the updater evaluates to: undefined, a primitive
\* value, an object of the fetched entity, a proxy over (obj, prefix), the
\* {add, remove, has} object of a Set at pointer, or a thrown TypeError
Undefined == [kind |-> "undefined", v |-> "", obj |-> <<>>, pointer |-> <<>>]
TypeError == [kind |-> "TypeError", v |-> "", obj |-> <<>>, pointer |-> <<>>]
ValueOf(v) == [kind |-> "value", v |-> v, obj |-> <<>>, pointer |-> <<>>]
ObjectOf(obj) == [kind |-> "object", v |-> "", obj |-> obj, pointer |-> <<>>]
ProxyOf(obj, prefix) ==
    [kind |-> "proxy", v |-> "", obj |-> obj, pointer |-> prefix]
SetOpsOf(obj, pointer) ==
    [kind |-> "setops", v |-> "", obj |-> obj, pointer |-> pointer]

\* The object that obj holds at path
SubObject(obj, path) ==
    LET below == {p \in DOMAIN obj : IsPrefix(path, p) /\ p # path}
    IN [q \in {SubSeq(p, Len(path) + 1, Len(p)) : p \in below} |->
            obj[path \o q]]

\* ValuePointer.Get(obj, pointer)
ValuePointerGet(obj, pointer) ==
    LET path == PointerToPath(pointer)
    IN IF path \in DOMAIN obj THEN ValueOf(obj[path])
       ELSE IF DOMAIN SubObject(obj, path) # {}
       THEN ObjectOf(SubObject(obj, path))
       ELSE Undefined

\* The changeTracker, a Map in insertion order: a sequence of [k, v]
MapHas(m, k) == \E i \in 1..Len(m) : m[i].k = k

MapGet(m, k) ==
    IF MapHas(m, k)
    THEN ValueOf(m[CHOOSE i \in 1..Len(m) : m[i].k = k].v)
    ELSE Undefined

MapSet(m, k, v) ==
    IF MapHas(m, k)
    THEN [i \in 1..Len(m) |-> IF m[i].k = k THEN [k |-> k, v |-> v] ELSE m[i]]
    ELSE Append(m, [k |-> k, v |-> v])

\* The schema of the collection as update passes it to the proxy
NoCollectionSchema == [defined |-> FALSE, attributes |-> <<>>]

\* getSchemaFromPath(schema, path): the definition of the attribute, or
\* undefined
getSchemaFromPath(schema, path) ==
    IF path \in DOMAIN schema.attributes
    THEN [defined |-> TRUE, type |-> schema.attributes[path]]
    ELSE [defined |-> FALSE, type |-> ""]

\* propSchema['x-crdt-type'] === 'Set'
IsSetSchema(propSchema) ==
    propSchema.defined /\ propSchema.type \in {"set_string", "set_number"}

\* The set handler of the proxy: the error thrown, and the changeTracker
ProxySet(changeTracker, schema, prefix, prop, value) ==
    LET propPointer == PointerJoin(prefix, prop)
        propSchema == getSchemaFromPath(schema, PointerToPath(propPointer))
    IN IF ~schema.defined
       THEN [error |-> None, changes |-> MapSet(changeTracker, propPointer, value)]
       ELSE IF ~propSchema.defined
       THEN [error |-> "Error", changes |-> changeTracker]
       ELSE [error |-> None, changes |-> MapSet(changeTracker, propPointer, value)]

\* The get handler of the proxy over (entityObj, prefix)
ProxyGet(changeTracker, schema, entityObj, prefix, prop) ==
    LET propPointer == PointerJoin(prefix, prop)
        propValue == ValuePointerGet(entityObj, propPointer)
        propSchema ==
            IF schema.defined
            THEN getSchemaFromPath(schema, PointerToPath(propPointer))
            ELSE [defined |-> FALSE, type |-> ""]
    IN IF propValue.kind = "undefined" THEN MapGet(changeTracker, propPointer)
       ELSE IF propValue.kind = "object" /\ ~IsSetSchema(propSchema)
       THEN ProxyOf(propValue.obj, propPointer)
       ELSE IF IsSetSchema(propSchema)
       THEN SetOpsOf(propValue.obj, propPointer)
       ELSE IF MapHas(changeTracker, propPointer)
       THEN MapGet(changeTracker, propPointer)
       ELSE propValue

\* target.prop, for whatever target the expression before it gave
GetProp(changeTracker, schema, target, prop) ==
    CASE target.kind = "proxy" ->
            ProxyGet(changeTracker, schema, target.obj, target.pointer, prop)
      [] target.kind \in {"undefined", "TypeError"} -> TypeError
      [] OTHER -> Undefined

\* entity.p1.p2...pk through the proxy
RECURSIVE Navigate(_, _, _, _)
Navigate(changeTracker, schema, target, props) ==
    IF props = <<>> THEN target
    ELSE Navigate(changeTracker, schema,
                  GetProp(changeTracker, schema, target, Head(props)),
                  Tail(props))

\* entity.p1...pk = value
Assign(changeTracker, schema, entityObj, path, value) ==
    LET target == Navigate(changeTracker, schema, ProxyOf(entityObj, <<>>),
                           SubSeq(path, 1, Len(path) - 1))
    IN CASE target.kind = "proxy" ->
                ProxySet(changeTracker, schema, target.pointer,
                         path[Len(path)], value)
         [] target.kind = "setops" ->
                [error |-> None, changes |-> changeTracker]
         [] OTHER -> [error |-> "TypeError", changes |-> changeTracker]

\* add: (value) => changeTracker.set([propPointer, value].join('/'), true)
SetAdd(changeTracker, propPointer, value) ==
    MapSet(changeTracker, PointerJoin(propPointer, value), "true")

\* A remove that stages nothing
SetRemoveNothing(changeTracker, propPointer, value) == changeTracker

\* remove: (value) => changeTracker.set([propPointer, value].join('/'), false)
SetRemove(changeTracker, propPointer, value) ==
    MapSet(changeTracker, PointerJoin(propPointer, value), "false")

\* has: (value) => changeTracker.has(valuePointer)
\*                     ? changeTracker.get(valuePointer) : propValue[value]
SetHas(changeTracker, propValue, propPointer, value) ==
    LET valuePointer == PointerJoin(propPointer, value)
    IN IF MapHas(changeTracker, valuePointer)
       THEN MapGet(changeTracker, valuePointer)
       ELSE IF <<value>> \in DOMAIN propValue
       THEN ValueOf(propValue[<<value>>])
       ELSE Undefined

\* The setValue calls of update, one per entry of changes, in its order
SetValueCalls(changes, collectionName) ==
    [i \in 1..Len(changes) |->
        [attribute |-> <<collectionName>> \o PointerToPath(changes[i].k),
         value |-> changes[i].v]]

Truthy(result) == result.kind = "value" /\ result.v \notin {"false", ""}

----------------------------------------------------------------------------
(* An update whose updater runs statements on the proxy *)

\* The entities update may have fetched
FetchedA ==
    (<<"n">> :> "a") @@ (<<"r", "k">> :> "a") @@ (<<"r", "s", "k">> :> "a")
        @@ (<<"tags", "x">> :> "true")
FetchedB == (<<"n">> :> "a")
FetchedEntities == {FetchedA, FetchedB}

\* The schema of the collection, when it has one
TodoAttributes ==
    [defined |-> TRUE,
     attributes |->
        (<<"n">> :> "string") @@ (<<"r">> :> "record")
        @@ (<<"r", "k">> :> "string") @@ (<<"r", "s">> :> "record")
        @@ (<<"r", "s", "k">> :> "string") @@ (<<"tags">> :> "set_string")]

AssignPaths ==
    {<<"n">>, <<"q">>, <<"r", "k">>, <<"r", "s", "k">>, <<"tags">>}
ReadPaths == AssignPaths
SetPaths == {<<"tags">>}
Members == {"x", "y"}
AssignedValues == {"a", "b"}

NoStatement ==
    [stmt |-> None, path |-> <<>>, value |-> "", error |-> None,
     result |-> Undefined, before |-> <<>>]

\* px.  pc: where update is; schema, entity: what the proxy was made with;
\* changes: the changeTracker; n: the statements the updater has run; last:
\* its last statement, with the changeTracker before it; calls: the add and
\* remove calls that returned, per member; writes: the setValue calls issued.
PxIdle ==
    [pc |-> "idle", schema |-> NoCollectionSchema, entity |-> <<>>,
     changes |-> <<>>, n |-> 0, last |-> NoStatement,
     calls |-> [m \in Members |-> <<>>], writes |-> <<>>]

\* update has fetched the entity and awaits updater(updateProxy)
UpdaterCalled(entity, schema) ==
    /\ px.pc = "idle"
    /\ px' = [PxIdle EXCEPT !.pc = "updater", !.schema = schema,
                            !.entity = entity]
    /\ UNCHANGED <<store, mig, tx, clock, vs, df, handle, uq>>

UpdaterRuns == px.pc = "updater" /\ px.n < MaxStatements

\* entity.p1...pk = value; the updater catches what it throws
UpdaterAssigns(path, value) ==
    /\ UpdaterRuns
    /\ LET r == Assign(px.changes, px.schema, px.entity, path, value)
       IN px' = [px EXCEPT !.changes = r.changes, !.n = @ + 1,
                    !.last = [stmt |-> "assign", path |-> path,
                              value |-> value, error |-> r.error,
                              result |-> Undefined, before |-> px.changes]]
    /\ UNCHANGED <<store, mig, tx, clock, vs, df, handle, uq>>

\* entity.p1...pk as an expression
UpdaterReads(path) ==
    /\ UpdaterRuns
    /\ LET r == Navigate(px.changes, px.schema, ProxyOf(px.entity, <<>>), path)
       IN px' = [px EXCEPT !.n = @ + 1,
                    !.last = [stmt |-> "read", path |-> path, value |-> "",
                              error |-> IF r.kind = "TypeError"
                                        THEN "TypeError" ELSE None,
                              result |-> r, before |-> px.changes]]
    /\ UNCHANGED <<store, mig, tx, clock, vs, df, handle, uq>>

\* entity.p1...pk.add(member), .remove(member) and .has(member)
UpdaterCallsSet(name, path, member) ==
    /\ UpdaterRuns
    /\ LET target == Navigate(px.changes, px.schema, ProxyOf(px.entity, <<>>),
                              path)
           isSet == target.kind = "setops"
           changes ==
              CASE ~isSet -> px.changes
                [] name = "add" -> SetAdd(px.changes, target.pointer, member)
                [] name = "remove" ->
                      SetRemove(px.changes, target.pointer, member)
                [] OTHER -> px.changes
           result ==
              IF isSet /\ name = "has"
              THEN SetHas(px.changes, target.obj, target.pointer, member)
              ELSE Undefined
       IN px' = [px EXCEPT
                    !.changes = changes, !.n = @ + 1,
                    !.calls = IF isSet /\ name \in {"add", "remove"}
                              THEN [@ EXCEPT ![member] = Append(@, name)]
                              ELSE @,
                    !.last = [stmt |-> name, path |-> path, value |-> member,
                              error |-> IF isSet THEN None ELSE "TypeError",
                              result |-> result, before |-> px.changes]]
    /\ UNCHANGED <<store, mig, tx, clock, vs, df, handle, uq>>

\* The updater resolves: one setValue per entry of changes
UpdaterResolves ==
    /\ px.pc = "updater"
    /\ px' = [px EXCEPT !.pc = "written",
                        !.writes = SetValueCalls(px.changes, "todos")]
    /\ UNCHANGED <<store, mig, tx, clock, vs, df, handle, uq>>

\* The updater lets the error of its last statement escape: update rejects
UpdaterThrows ==
    /\ px.pc = "updater"
    /\ px.last.error # None
    /\ px' = [px EXCEPT !.pc = "rejected"]
    /\ UNCHANGED <<store, mig, tx, clock, vs, df, handle, uq>>

----------------------------------------------------------------------------
(* Variables in filters.  A JS value is [type, s, n]: a string by its      *)
(* characters s, a number by n, a boolean by n = 1.  A filter is a         *)
(* statement [path, op, value] or a group of filters.                      *)

Str(s) == [type |-> "string", s |-> s, n |-> 0]
Num(n) == [type |-> "number", s |-> <<>>, n |-> n]
Bool(b) == [type |-> "boolean", s |-> <<>>, n |-> IF b THEN 1 ELSE 0]

\* !value, for a value that is defined
Falsy(value) ==
    \/ value.type = "string" /\ value.s = <<>>
    \/ value.type \in {"number", "boolean"} /\ value.n = 0

Statement(path, op, value) ==
    [isGroup |-> FALSE, path |-> path, op |-> op, value |-> value,
     mod |-> "", filters |-> <<>>]
FilterGroup(mod, filters) ==
    [isGroup |-> TRUE, path |-> "", op |-> "", value |-> Num(0),
     mod |-> mod, filters |-> filters]

\* typeof filter[2] === 'string' && filter[2].startsWith('$')
IsVariable(value) ==
    value.type = "string" /\ Len(value.s) > 0 /\ value.s[1] = "$"

\* { ...a, ...b }
Spread(a, b) ==
    [k \in DOMAIN a \cup DOMAIN b |-> IF k \in DOMAIN b THEN b[k] ELSE a[k]]

\* const varValue = variables[name]; if (!varValue) throw ...
LookupVariable(variables, name) ==
    IF name \in DOMAIN variables /\ ~Falsy(variables[name])
    THEN [found |-> TRUE, value |-> variables[name]]
    ELSE [found |-> FALSE, value |-> Num(0)]

\* replaceVariablesInFilterStatements: the error thrown, or the statements
RECURSIVE replaceVariablesInFilterStatements(_, _)
replaceVariablesInFilterStatements(statements, variables) ==
    LET replaced ==
          [i \in 1..Len(statements) |->
             LET filter == statements[i] IN
             IF filter.isGroup
             THEN LET r == replaceVariablesInFilterStatements(filter.filters,
                                                              variables)
                  IN [error |-> r.error,
                      filter |-> [filter EXCEPT !.filters = r.where]]
             ELSE IF ~IsVariable(filter.value)
             THEN [error |-> None, filter |-> filter]
             ELSE LET varValue == LookupVariable(variables, Tail(filter.value.s))
                  IN IF ~varValue.found
                     THEN [error |-> "SessionVariableNotFound", filter |-> filter]
                     ELSE [error |-> None,
                           filter |-> [filter EXCEPT !.value = varValue.value]]]
    IN IF \E i \in 1..Len(statements) : replaced[i].error # None
       THEN [error |-> "SessionVariableNotFound", where |-> statements]
       ELSE [error |-> None,
             where |-> [i \in 1..Len(statements) |-> replaced[i].filter]]

\* The array `statements` as its owner finds it after
\* replaceVariablesInFilterStatements(statements, variables) has returned or
\* thrown.  map() builds a new array and a statement with a variable is
\* answered by a new array, but a group is answered by itself, after
\* filter.filters = replaceVariablesInFilterStatements(filter.filters, ...);
\* the filters behind the one that throws are not reached.
RECURSIVE filtersAfterReplace(_, _)
filtersAfterReplace(statements, variables) ==
    LET throws(i) ==
            replaceVariablesInFilterStatements(<<statements[i]>>,
                                               variables).error # None
        reached(i) == \A j \in 1..(i - 1) : ~throws(j)
    IN [i \in 1..Len(statements) |->
          LET filter == statements[i] IN
          IF ~filter.isGroup \/ ~reached(i)
          THEN filter
          ELSE LET r == replaceVariablesInFilterStatements(filter.filters,
                                                          variables)
               IN IF r.error = None
                  THEN [filter EXCEPT !.filters = r.where]
                  ELSE [filter EXCEPT !.filters =
                            filtersAfterReplace(filter.filters, variables)]]

\* DB.replaceVariablesInQuery
replaceVariablesInQuery(variables, query) ==
    replaceVariablesInFilterStatements(query.where,
                                       Spread(variables, query.vars))

----------------------------------------------------------------------------
(* DB.updateVariables, DB.subscribe and DB.fetch on a DB without schema *)

NoVariables == <<>>
U == <<"u">>
W == <<"w">>
VariableValues == {Num(0), Num(1), Str(<<>>), Bool(FALSE)}
VariableUpdates == {U :> v : v \in VariableValues} \cup {W :> Num(1)}

RefU == Str(<<"$", "u">>)
RefW == Str(<<"$", "w">>)
Literal == Str(<<"a">>)
Wheres ==
    {<<Statement("n", "=", value)>> : value \in {RefU, RefW, Literal}}
    \cup {<<Statement("n", "=", RefU), Statement("m", "=", RefW)>>,
          <<Statement("n", "=", Literal),
            FilterGroup("or", <<FilterGroup("and",
                                   <<Statement("m", "=", RefU)>>)>>)>>}
Queries == [where : Wheres, vars : {NoVariables, U :> Num(1)}]
NoQuery == [where |-> <<>>, vars |-> NoVariables]

\* vs.  variables: DB.variables; updates: the updateVariables calls made;
\* sub: the subscription, with the variables of the moment subscribe() was
\* called and the where clause it evaluates; fetch: the last fetch, with
\* the variables of the moment it resolved its query.
NoCall ==
    [pc |-> "none", query |-> NoQuery, atCall |-> NoVariables,
     error |-> None, where |-> <<>>]

\* vs.un, the function subscribe() returned.  calls: the calls made;
\* waiting: the calls at await unsubPromise; resolved, rejected: the calls
\* settled; early: a call was made before the start had finished; open,
\* closed: the notification channel of the underlying subscription;
\* delivered: the invocations of the callback; after: those made when a call
\* of the function had already resolved.
UnIdle ==
    [calls |-> 0, waiting |-> 0, resolved |-> 0, rejected |-> 0,
     early |-> FALSE, open |-> FALSE, closed |-> FALSE,
     delivered |-> 0, after |-> 0]

\* vs.held, a query object its caller keeps and passes to more than one
\* operation: built tells that there is one, original is the query as it
\* was built, query is the object as it is now.
NotHeld == [built |-> FALSE, original |-> NoQuery, query |-> NoQuery]

VsIdle ==
    [variables |-> NoVariables, updates |-> 0, sub |-> NoCall,
     fetch |-> NoCall, un |-> UnIdle, held |-> NotHeld]

\* db.updateVariables(variables)
UpdateVariables(variables) ==
    /\ vs.updates < MaxUpdates
    /\ vs' = [vs EXCEPT !.variables = Spread(vs.variables, variables),
                        !.updates = @ + 1]
    /\ UNCHANGED <<store, mig, tx, clock, px, df, handle, uq>>

\* db.subscribe(query, callback): startSubscription runs to its first
\* await and subscribe returns
Subscribe(query) ==
    /\ vs.sub.pc = "none"
    /\ vs' = [vs EXCEPT !.sub = [NoCall EXCEPT !.pc = "starting",
                                               !.query = query,
                                               !.atCall = vs.variables]]
    /\ UNCHANGED <<store, mig, tx, clock, px, df, handle, uq>>

\* startSubscription goes on after await this.getCollectionSchema(...)
SubscriptionStarts ==
    /\ vs.sub.pc = "starting"
    /\ LET r == replaceVariablesInQuery(vs.variables, vs.sub.query)
       IN vs' = [vs EXCEPT !.sub.pc = IF r.error = None THEN "started"
                                      ELSE "failed",
                           !.sub.error = r.error, !.sub.where = r.where]
    /\ UNCHANGED <<store, mig, tx, clock, px, df, handle, uq>>

\* db.fetch(query), at the moment it resolves the variables of its query
Fetch(query) ==
    /\ LET r == replaceVariablesInQuery(vs.variables, query)
       IN vs' = [vs EXCEPT !.fetch = [pc |-> IF r.error = None THEN "fetched"
                                             ELSE "failed",
                                      query |-> query,
                                      atCall |-> vs.variables,
                                      error |-> r.error, where |-> r.where]]
    /\ UNCHANGED <<store, mig, tx, clock, px, df, handle, uq>>

\* The caller builds a query object and keeps it
BuildQuery(query) ==
    /\ ~vs.held.built
    /\ vs' = [vs EXCEPT !.held = [built |-> TRUE, original |-> query,
                                  query |-> query]]
    /\ UNCHANGED <<store, mig, tx, clock, px, df, handle, uq>>

\* db.fetch(query) with the object the caller keeps.  Without a schema the
\* where clause given to replaceVariablesInFilterStatements is query.where
\* itself.
FetchHeld ==
    /\ vs.held.built
    /\ LET query == vs.held.query
           r == replaceVariablesInQuery(vs.variables, query)
       IN vs' = [vs EXCEPT
                   !.fetch = [pc |-> IF r.error = None THEN "fetched"
                                     ELSE "failed",
                              query |-> query, atCall |-> vs.variables,
                              error |-> r.error, where |-> r.where],
                   !.held.query.where =
                        filtersAfterReplace(query.where,
                                            Spread(vs.variables, query.vars))]
    /\ UNCHANGED <<store, mig, tx, clock, px, df, handle, uq>>

----------------------------------------------------------------------------
(* The function DB.subscribe returns, and the underlying subscription *)

\* A function that does not wait for the start of the subscription
UnsubPromiseIgnored(sub) == TRUE

\* await unsubPromise goes on when startSubscription has settled
unsubPromiseSettled(sub) == sub.pc \in {"started", "failed"}

\* The callback is invoked
Deliver(un) ==
    [un EXCEPT !.delivered = @ + 1,
               !.after = IF un.resolved > 0 THEN @ + 1 ELSE @]

\* The returned function is called and reaches await unsubPromise
Unsubscribe ==
    /\ vs.sub.pc # "none"
    /\ vs.un.calls < MaxCalls
    /\ vs' = [vs EXCEPT !.un.calls = @ + 1, !.un.waiting = @ + 1,
                        !.un.early = @ \/ vs.sub.pc = "starting"]
    /\ UNCHANGED <<store, mig, tx, clock, px, df, handle, uq>>

\* A call goes on after await unsubPromise: it rejects with the error of
\* the start, or calls the underlying unsub, which closes the channel
UnsubscribeSettles ==
    /\ vs.un.waiting > 0
    /\ unsubPromiseSettled(vs.sub)
    /\ vs' = IF vs.sub.pc = "failed"
             THEN [vs EXCEPT !.un.waiting = @ - 1, !.un.rejected = @ + 1]
             ELSE [vs EXCEPT !.un.waiting = @ - 1, !.un.resolved = @ + 1,
                             !.un.closed = @ \/ vs.sub.pc = "started"]
    /\ UNCHANGED <<store, mig, tx, clock, px, df, handle, uq>>

\* The underlying subscription has computed the initial result: it invokes
\* the callback and listens to the notifications of the triple store
InitialResults ==
    /\ vs.sub.pc = "started"
    /\ ~vs.un.open /\ ~vs.un.closed
    /\ vs' = [vs EXCEPT !.un = [Deliver(vs.un) EXCEPT !.open = TRUE]]
    /\ UNCHANGED <<store, mig, tx, clock, px, df, handle, uq>>

\* The triple store notifies the subscription of a write
Notification ==
    /\ vs.un.open /\ ~vs.un.closed
    /\ vs.un.delivered < MaxDeliveries
    /\ vs' = [vs EXCEPT !.un = Deliver(vs.un)]
    /\ UNCHANGED <<store, mig, tx, clock, px, df, handle, uq>>

----------------------------------------------------------------------------
(* Schemas as the builder S writes them, and diffSchemas.  A descriptor    *)
(* that is not there is the descriptor Absent; a blob that is not there is *)
(* "undefined".  Rules, permissions and roles are opaque blobs.            *)

AttributeOrder == <<"x", "y">>
FieldOrder == <<"k">>
CollectionOrder == <<"first", "second">>
AttributeNames == Range(AttributeOrder)
FieldNames == Range(FieldOrder)
CollectionNames == Range(CollectionOrder)

NoEnum == [on |-> FALSE, values |-> {}]
Enum(values) == [on |-> TRUE, values |-> values]
DefaultOptions ==
    [nullable |-> FALSE, default |-> "undefined", enum |-> NoEnum]
Nullable == [DefaultOptions EXCEPT !.nullable = TRUE]
WithDefault == [DefaultOptions EXCEPT !.default = "d"]
WithEnum(values) == [DefaultOptions EXCEPT !.enum = Enum(values)]

AbsentField == [type |-> "absent", optional |-> FALSE]
Field(type, optional) == [type |-> type, optional |-> optional]
NoFields == [f \in FieldNames |-> AbsentField]
Absent ==
    [type |-> "absent", optional |-> FALSE, options |-> DefaultOptions,
     items |-> "undefined", fields |-> NoFields]

\* S.String(options), S.Number(options), S.Set(items, options),
\* S.Record(fields), S.Optional(type)
SString(options) == [Absent EXCEPT !.type = "string", !.options = options]
SNumber(options) == [Absent EXCEPT !.type = "number", !.options = options]
SSet(items, options) ==
    [Absent EXCEPT !.type = "set", !.items = items, !.options = options]
SRecord(fields) == [Absent EXCEPT !.type = "record", !.fields = fields]
SOptional(type) == [type EXCEPT !.optional = TRUE]

\* The descriptor of a field of a record
FieldDescriptor(field) ==
    [Absent EXCEPT !.type = field.type, !.optional = field.optional]

Descriptors ==
    {Absent,
     SString(DefaultOptions), SOptional(SString(DefaultOptions)),
     SString(Nullable), SString(WithDefault),
     SString(WithEnum({"a", "b"})), SString(WithEnum({"a", "b", "c"})),
     SString(WithEnum({"a", "d"})),
     SNumber(DefaultOptions),
     SSet("string", DefaultOptions), SSet("number", DefaultOptions),
     SSet("string", Nullable),
     SRecord(NoFields),
     SRecord([f \in FieldNames |-> Field("string", FALSE)]),
     SRecord([f \in FieldNames |-> Field("number", FALSE)]),
     SRecord([f \in FieldNames |-> Field("string", TRUE)])}

AbsentCollection ==
    [present |-> FALSE, attributes |-> [n \in AttributeNames |-> Absent],
     rules |-> "undefined", permissions |-> "undefined"]

\* { schema: S.Schema({x, y}), rules, permissions }
Collection(x, y, rules, permissions) ==
    [present |-> TRUE, attributes |-> [n \in AttributeNames |->
                                          IF n = "x" THEN x ELSE y],
     rules |-> rules, permissions |-> permissions]

\* wrapSchema(definition) of the tests: one collection, nothing else
wrapSchema(x, y) ==
    [version |-> 0,
     collections |-> [c \in CollectionNames |->
                        IF c = "first"
                        THEN Collection(x, y, "undefined", "undefined")
                        ELSE AbsentCollection],
     roles |-> "undefined"]

RulesBlobs == {"undefined", "can-read", "cant-read"}
PermissionsBlobs == {"undefined", "user-read"}
RolesBlobs == {"undefined", "type-user", "role-user"}
SecondCollections ==
    {AbsentCollection,
     Collection(SString(DefaultOptions), Absent, "undefined", "undefined"),
     Collection(SString(DefaultOptions), Absent, "can-read", "undefined")}

Schemas ==
    {wrapSchema(x, y) : x \in Descriptors,
                        y \in {Absent, SString(DefaultOptions)}}
    \cup {[version |-> 0,
           collections |-> [c \in CollectionNames |->
                              IF c = "first"
                              THEN Collection(SString(DefaultOptions), Absent,
                                              rules, permissions)
                              ELSE second],
           roles |-> roles] :
            rules \in RulesBlobs, permissions \in PermissionsBlobs,
            roles \in RolesBlobs, second \in SecondCollections}

\* Deep equality, and a comparison of references, which two blobs built
\* apart never pass
IsSameObject(x, y) == FALSE
isEqual(x, y) == x = y

BoolText(b) == IF b THEN "true" ELSE "false"

RECURSIVE Flatten(_)
Flatten(seqs) ==
    IF seqs = <<>> THEN <<>> ELSE Head(seqs) \o Flatten(Tail(seqs))

\* changes: only the differing fields, with their new values
NoChanges ==
    [type |-> "unchanged", optional |-> "unchanged",
     options |-> [nullable |-> "unchanged", default |-> "unchanged",
                  enum |-> [changed |-> FALSE, enum |-> NoEnum]],
     items |-> "unchanged"]

attributeChanges(A, B) ==
    [type |-> IF A.type = B.type THEN "unchanged" ELSE B.type,
     optional |-> IF A.optional = B.optional THEN "unchanged"
                  ELSE BoolText(B.optional),
     options |->
        [nullable |-> IF A.options.nullable = B.options.nullable
                      THEN "unchanged" ELSE BoolText(B.options.nullable),
         default |-> IF A.options.default = B.options.default
                     THEN "unchanged" ELSE B.options.default,
         enum |-> IF A.options.enum = B.options.enum
                  THEN [changed |-> FALSE, enum |-> NoEnum]
                  ELSE [changed |-> TRUE, enum |-> B.options.enum]],
     items |-> IF A.items = B.items THEN "unchanged" ELSE B.items]

\* A diff record.  from: the old descriptor of an update
DiffRecord(diff, collection, type, attribute, metadata, changes, from, isNew) ==
    [diff |-> diff, collection |-> collection, type |-> type,
     attribute |-> attribute, metadata |-> metadata, changes |-> changes,
     from |-> from, isNewCollection |-> isNew]

BlobRecord(diff, collection) ==
    DiffRecord(diff, collection, "undefined", <<>>, Absent, NoChanges,
               Absent, FALSE)

\* An insert that never says the collection is new
InsertIntoOldCollection(collection, attribute, B, isNewCollection) ==
    DiffRecord("collectionAttribute", collection, "insert", attribute, B,
               NoChanges, Absent, FALSE)

InsertRecord(collection, attribute, B, isNewCollection) ==
    DiffRecord("collectionAttribute", collection, "insert", attribute, B,
               NoChanges, Absent, isNewCollection)

\* One path of the attribute tree: descriptor A of the old schema against
\* descriptor B of the new one
diffAttribute(collection, attribute, A, B, isNewCollection) ==
    IF A.type = "absent" /\ B.type = "absent" THEN <<>>
    ELSE IF A.type = "absent"
    THEN <<InsertRecord(collection, attribute, B, isNewCollection)>>
    ELSE IF B.type = "absent"
    THEN <<DiffRecord("collectionAttribute", collection, "delete", attribute,
                      A, NoChanges, Absent, FALSE)>>
    ELSE IF attributeChanges(A, B) = NoChanges THEN <<>>
    ELSE <<DiffRecord("collectionAttribute", collection, "update", attribute,
                      Absent, attributeChanges(A, B), A, FALSE)>>

\* For Record types, recurse into the fields
diffFields(collection, attribute, A, B) ==
    Flatten([i \in 1..Len(FieldOrder) |->
                diffAttribute(collection, attribute \o <<FieldOrder[i]>>,
                              FieldDescriptor(A.fields[FieldOrder[i]]),
                              FieldDescriptor(B.fields[FieldOrder[i]]),
                              FALSE)])

diffProperty(collection, name, A, B, isNewCollection) ==
    diffAttribute(collection, <<name>>, A, B, isNewCollection)
    \o (IF A.type = "record" /\ B.type = "record"
        THEN diffFields(collection, <<name>>, A, B) ELSE <<>>)

\* A blob record that is emitted only when the new schema has the blob
diffAddedBlob(diff, collection, blobA, blobB) ==
    IF blobB # "undefined" /\ ~isEqual(blobA, blobB)
    THEN <<BlobRecord(diff, collection)>> ELSE <<>>

\* collectionRules, collectionPermissions, roles: emitted iff the blobs
\* differ by deep equality
diffBlob(diff, collection, blobA, blobB) ==
    IF isEqual(blobA, blobB) THEN <<>> ELSE <<BlobRecord(diff, collection)>>

diffCollection(collection, A, B) ==
    Flatten([i \in 1..Len(AttributeOrder) |->
                diffProperty(collection, AttributeOrder[i],
                             A.attributes[AttributeOrder[i]],
                             B.attributes[AttributeOrder[i]], ~A.present)])
    \o diffBlob("collectionRules", collection, A.rules, B.rules)
    \o diffBlob("collectionPermissions", collection, A.permissions,
                B.permissions)

diffSchemas(schemaA, schemaB) ==
    Flatten([i \in 1..Len(CollectionOrder) |->
                diffCollection(CollectionOrder[i],
                               schemaA.collections[CollectionOrder[i]],
                               schemaB.collections[CollectionOrder[i]])])
    \o diffBlob("roles", "undefined", schemaA.roles, schemaB.roles)

----------------------------------------------------------------------------
(* getBackwardsIncompatibleEdits: the rules B1 to B8 *)

IsAttributeEdit(d, type) == d.diff = "collectionAttribute" /\ d.type = type

B1(d) == IsAttributeEdit(d, "delete") /\ ~d.metadata.optional
B2(d) == IsAttributeEdit(d, "insert") /\ ~d.metadata.optional
B3(d) == IsAttributeEdit(d, "update") /\ d.changes.type # "unchanged"
B4(d) == IsAttributeEdit(d, "update") /\ d.changes.optional = "false"
B5(d) == IsAttributeEdit(d, "update") /\ d.changes.options.nullable = "false"
B6(d) ==
    /\ IsAttributeEdit(d, "update")
    /\ d.changes.options.enum.changed
    /\ d.changes.options.enum.enum.on
    /\ ~(/\ d.from.options.enum.on
         /\ d.from.options.enum.values
                \subseteq d.changes.options.enum.enum.values)
\* inside a Record: any field removal, a field type change, the addition of
\* a non-optional field
B7(d) ==
    /\ d.diff = "collectionAttribute"
    /\ Len(d.attribute) > 1
    /\ \/ d.type = "delete"
       \/ d.type = "update" /\ d.changes.type # "unchanged"
       \/ d.type = "insert" /\ ~d.metadata.optional
\* a Set: item-type change (nullability tightening is B5)
B8(d) == IsAttributeEdit(d, "update") /\ d.changes.items # "unchanged"

\* A classification that takes the edits inside a Record like any other edit
IsIncompatibleByPathRules(d) ==
    B1(d) \/ B2(d) \/ B3(d) \/ B4(d) \/ B5(d) \/ B6(d) \/ B8(d)

IsBackwardsIncompatible(d) ==
    B1(d) \/ B2(d) \/ B3(d) \/ B4(d) \/ B5(d) \/ B6(d) \/ B7(d) \/ B8(d)

Edit(d) == [context |-> d]

getBackwardsIncompatibleEdits(diffs) ==
    LET dangerous == SelectSeq(diffs, IsBackwardsIncompatible)
    IN [i \in 1..Len(dangerous) |-> Edit(dangerous[i])]

----------------------------------------------------------------------------
(* getSchemaDiffIssues(tx, diffs): the edits against the entities the      *)
(* transaction reads.  An entity is its collection and the JSON text of    *)
(* the value at each leaf path.                                            *)

LeafPaths == {<<"x">>, <<"x", "k">>, <<"y">>}
Entity(collection, x, xk, y) ==
    [collection |-> collection,
     values |-> [p \in LeafPaths |->
                    IF p = <<"x">> THEN x
                    ELSE IF p = <<"x", "k">> THEN xk ELSE y]]

Entities ==
    {Entity("first", "'a'", "undefined", "'a'"),
     Entity("first", "'e'", "undefined", "undefined"),
     Entity("first", "null", "undefined", "undefined"),
     Entity("first", "1", "undefined", "undefined"),
     Entity("first", "undefined", "'a'", "undefined"),
     Entity("first", "undefined", "undefined", "undefined"),
     Entity("second", "'a'", "undefined", "undefined")}

Databases == {db \in SUBSET Entities : Cardinality(db) <= MaxEntities}

\* The values an entity has at or below the path
ValuesAt(entity, attribute) ==
    {entity.values[p] : p \in {q \in LeafPaths : IsPrefix(attribute, q)}}
    \ {"undefined"}

RuntimeType(value) ==
    IF value = "1" THEN "number"
    ELSE IF value = "null" THEN "null" ELSE "string"

EnumText(value) ==
    IF value = "'a'" THEN "a" ELSE IF value = "'e'" THEN "e" ELSE value

\* A scan that does not look at the collection of the entity
InAnyCollection(db, collection) == db

InCollection(db, collection) == {e \in db : e.collection = collection}

\* An emptiness test that takes a null for a value
AttributeHasNoTriple(db, d) ==
    \A e \in InCollection(db, d.collection) : ValuesAt(e, d.attribute) = {}

\* B1, B7 removal: some entity has a current non-null value at the path
attribute_is_empty(db, d) ==
    \A e \in InCollection(db, d.collection) :
        ValuesAt(e, d.attribute) \subseteq {"null"}
\* B2, B4: some entity is missing a value at the path
attribute_has_no_undefined(db, d) ==
    \A e \in InCollection(db, d.collection) : ValuesAt(e, d.attribute) # {}
\* B3, B8: some entity has a non-null value at the path whose runtime type
\* does not match the target
TargetType(d) ==
    IF d.changes.type # "unchanged" THEN d.changes.type ELSE d.changes.items
attribute_matches_type(db, d) ==
    \A e \in InCollection(db, d.collection) :
        \A v \in ValuesAt(e, d.attribute) \ {"null"} :
            RuntimeType(v) = TargetType(d)
\* B5: some entity has an explicit null at the path
attribute_has_no_null(db, d) ==
    \A e \in InCollection(db, d.collection) :
        "null" \notin ValuesAt(e, d.attribute)
\* A test of the values against the enum of the old descriptor
AttributeSatisfiesOldEnum(db, d) ==
    \A e \in InCollection(db, d.collection) :
        \A v \in ValuesAt(e, d.attribute) \ {"null"} :
            d.from.options.enum.on
                => EnumText(v) \in d.from.options.enum.values

\* B6: some entity has a value at the path that is not in the new enum
attribute_satisfies_enum(db, d) ==
    \A e \in InCollection(db, d.collection) :
        \A v \in ValuesAt(e, d.attribute) \ {"null"} :
            EnumText(v) \in d.changes.options.enum.enum.values

\* The data rule of every rule of B1 to B8 that the edit matches; for an
\* enum change the rule of B6 whatever the old enum was
violatesExistingData(db, d) ==
    \/ (B1(d) \/ (B7(d) /\ d.type = "delete")) /\ ~attribute_is_empty(db, d)
    \/ (B2(d) \/ B4(d)) /\ ~attribute_has_no_undefined(db, d)
    \/ (B3(d) \/ B8(d)) /\ ~attribute_matches_type(db, d)
    \/ B5(d) /\ ~attribute_has_no_null(db, d)
    \/ /\ IsAttributeEdit(d, "update")
       /\ d.changes.options.enum.changed
       /\ d.changes.options.enum.enum.on
       /\ ~attribute_satisfies_enum(db, d)

Issue(db, d) ==
    [diff |-> d, violatesExistingData |-> violatesExistingData(db, d)]

\* A checker that evaluates every edit of the diff
IssuesOfEveryEdit(db, diffs) ==
    [i \in 1..Len(diffs) |-> Issue(db, diffs[i])]

getSchemaDiffIssues(db, diffs) ==
    LET edits == getBackwardsIncompatibleEdits(diffs)
    IN [i \in 1..Len(edits) |-> Issue(db, edits[i].context)]

----------------------------------------------------------------------------
(* The calls of the schema-diff engine.  df.a, df.b: the schemas given to   *)
(* diffSchemas; diff: what it returned; edits: what                         *)
(* getBackwardsIncompatibleEdits returned for diff; db: the entities of the *)
(* DB; issues: what getSchemaDiffIssues returned for diff; was: an earlier  *)
(* check of diff, before the last write, found a violation.                 *)

NoSchema == wrapSchema(Absent, Absent)

DfIdle ==
    [pc |-> "idle", a |-> NoSchema, b |-> NoSchema, diff |-> <<>>,
     edits |-> <<>>, db |-> {}, issues |-> <<>>, was |-> FALSE]

\* diffSchemas(schemaA, schemaB)
DiffSchemas(schemaA, schemaB) ==
    /\ df.pc = "idle"
    /\ df' = [df EXCEPT !.pc = "diffed", !.a = schemaA, !.b = schemaB,
                        !.diff = diffSchemas(schemaA, schemaB)]
    /\ UNCHANGED <<store, mig, tx, clock, px, vs, handle, uq>>

\* getBackwardsIncompatibleEdits(diff)
GetBackwardsIncompatibleEdits ==
    /\ df.pc = "diffed"
    /\ df' = [df EXCEPT !.pc = "classified",
                        !.edits = getBackwardsIncompatibleEdits(df.diff)]
    /\ UNCHANGED <<store, mig, tx, clock, px, vs, handle, uq>>

\* getSchemaDiffIssues(tx, diff) in a transaction of a DB that holds db
GetSchemaDiffIssues(db) ==
    /\ df.pc = "classified"
    /\ df' = [df EXCEPT !.pc = "checked", !.db = db,
                        !.issues = getSchemaDiffIssues(db, df.diff)]
    /\ UNCHANGED <<store, mig, tx, clock, px, vs, handle, uq>>

\* The issues of the last check are out of date after a write
AfterWrite(db) ==
    [df EXCEPT !.pc = "classified", !.db = db, !.issues = <<>>,
               !.was = @ \/ \E j \in 1..Len(df.issues) :
                                df.issues[j].violatesExistingData]

\* db.insert('first', entity)
InsertEntity(entity) ==
    /\ df.pc \in {"classified", "checked"}
    /\ entity \notin df.db
    /\ Cardinality(df.db) < MaxEntities
    /\ df' = AfterWrite(df.db \cup {entity})
    /\ UNCHANGED <<store, mig, tx, clock, px, vs, handle, uq>>

\* db.update('first', id, (entity) => { entity.x = value })
UpdateEntity(entity, value) ==
    /\ df.pc \in {"classified", "checked"}
    /\ entity \in df.db
    /\ entity.values[<<"x">>] # value
    /\ df' = AfterWrite((df.db \ {entity})
                        \cup {[entity EXCEPT !.values[<<"x">>] = value]})
    /\ UNCHANGED <<store, mig, tx, clock, px, vs, handle, uq>>

----------------------------------------------------------------------------
(* The schemas a DB with data may have *)

NumberAttributes == [n |-> "number", m |-> "number"]

RulesA == [write |-> <<[filter |-> <<(<<"n", "=", 0>>)>>]>>]
RulesB ==
    [write |-> <<[filter |-> <<(<<"n", "!=", 1>>)>>],
                 [filter |-> <<(<<"m", "!=", 1>>)>>]>>]

RulesR == [read |-> <<[filter |-> <<(<<"n", "=", 0>>)>>]>>]

SchemaOf(hasRules, rules) ==
    updateMetadataTuples(
        createCollection(EmptyStore,
            [name |-> "todos", attributes |-> NumberAttributes,
             hasRules |-> hasRules, rules |-> rules]).meta,
        {[a |-> <<"version">>, v |-> 0]})

InitialSchemas ==
    {{}, SchemaOf(FALSE, <<>>), SchemaOf(TRUE, RulesA), SchemaOf(TRUE, RulesB),
     SchemaOf(TRUE, RulesR)}

InitTransact ==
    /\ store \in {[meta |-> m, triples |-> {}] : m \in InitialSchemas}
    /\ mig = MigIdle
    /\ tx = TxIdle
    /\ clock = 0
    /\ px = PxIdle
    /\ vs = VsIdle
    /\ df = DfIdle
    /\ handle = HandleIdle
    /\ uq = UqIdle

NextTransact ==
    \/ \E kind \in {"transact", "update"} : Transact(kind)
    \/ \E collectionName \in Collections, doc \in Docs,
          id \in GivenIds \cup {NoId}, generated \in GeneratedIds :
            TxInsert(collectionName, doc, id, generated)
    \/ \E collectionName \in Collections, entityId \in EntityIds,
          changes \in Changes :
            TxUpdate(collectionName, entityId, changes)
    \/ CallbackCatches
    \/ CallbackRethrows
    \/ CallbackThrows
    \/ \E value \in CallbackValues :
          \E result \in TripleStoreTransactResults(innerCallback(value)) :
            CallbackReturns(value, result)
    \/ \E collectionName \in Collections, doc \in Docs,
          id \in GivenIds \cup {NoId}, generated \in GeneratedIds :
            DBInsert(collectionName, doc, id, generated)
    \/ \E collectionName \in Collections, id \in EntityIds :
            DBFetchById(collectionName, id)

SpecTransact == InitTransact /\ [][NextTransact]_vars

----------------------------------------------------------------------------
(* The stores migrate may start from *)

TodosSchema(version) ==
    {[a |-> <<"collections", "todos", "attributes", "a", "type">>, v |-> "string"],
     [a |-> <<"version">>, v |-> version]}

EntityX == appendCollectionToId("todos", <<"x">>)

TodoX ==
    {Triple(DEFAULT_STORE_KEY, EntityX, <<"_collection">>, "todos", 1),
     Triple(DEFAULT_STORE_KEY, EntityX, <<"todos", "a">>, "x", 1),
     Triple("outbox", EntityX, <<"todos", "a">>, "y", 2)}

\* A schema with a second collection
TodosAndNotesSchema ==
    TodosSchema(0)
    \cup {[a |-> <<"collections", "notes", "attributes", "a", "type">>,
           v |-> "string"]}

\* More triples: a tombstone below todos.a, another attribute of the entity
\* and an entity of another collection with an attribute of the same name
TodoY ==
    {[Triple(DEFAULT_STORE_KEY, EntityX, <<"todos", "a", "k">>, "z", 1)
        EXCEPT !.expired = TRUE],
     Triple(DEFAULT_STORE_KEY, EntityX, <<"todos", "c">>, "c", 1),
     Triple("outbox", appendCollectionToId("notes", <<"x">>),
            <<"notes", "a">>, "n", 1)}

InitialStores ==
    {[meta |-> m, triples |-> t] :
        m \in {{}, TodosAndNotesSchema} \cup {TodosSchema(v) : v \in 0..1},
        t \in {{}, TodoX, TodoX \cup TodoY}}

InitMigrate ==
    /\ store \in InitialStores
    /\ mig = MigIdle
    /\ tx = TxIdle
    /\ clock = 0
    /\ px = PxIdle
    /\ vs = VsIdle
    /\ df = DfIdle
    /\ handle = HandleIdle
    /\ uq = UqIdle

NextMigrate ==
    \/ \E direction \in {"up", "down"} : MigrateCall(direction)
    \/ \E migration \in Migrations : MigrateExamine(migration)
    \/ \E operation \in DBOperations : MigrateOperation(operation)
    \/ MigrateCommit
    \/ MigrateSetVersion
    \/ MigrateReturn

SpecMigrate == InitMigrate /\ [][NextMigrate]_vars

----------------------------------------------------------------------------
(* A DB constructed with migrations.  The constructor calls migrate with   *)
(* direction 'up' and keeps its promise, with the rejection swallowed, as  *)
(* ensureMigrated; migrate runs up to its first await inside the           *)
(* constructor.  A caller then calls the public operations of the handle.  *)

PublicOperations ==
    {"fetch", "fetchById", "insert", "update", "transact", "subscribe",
     "createCollection", "dropCollection", "renameAttribute", "addAttribute",
     "dropAttribute"}

\* this.migrate(migrations, 'up').catch(() => {}) has settled
ensureMigratedSettled == mig.pc \in {"resolved", "rejected"}

\* The first await of a public operation: this.ensureMigrated, reached in
\* the operation itself (fetch, insert, update, transact), through
\* getCollectionSchema and getSchema (fetchById, subscribe) or through
\* this.transact (createCollection, dropCollection, renameAttribute,
\* addAttribute); dropAttribute goes to this.tripleStore.transact
FirstAwait(name) ==
    CASE name \in {"fetch", "insert", "update", "transact"} -> "ensureMigrated"
      [] name \in {"fetchById", "subscribe"} -> "ensureMigrated"
      [] name \in {"createCollection", "dropCollection", "renameAttribute",
                   "addAttribute"} -> "ensureMigrated"
      [] name = "dropAttribute" -> "tripleStore"

\* The operation a schema operation of the handle gives to its transaction
OperationOf(name) ==
    CASE name = "createCollection" -> CreateTodos
      [] name = "dropCollection" -> DropTodos
      [] name = "renameAttribute" -> RenameAB
      [] name = "addAttribute" -> AddB
      [] name = "dropAttribute" -> DropA

WritesData(name) == name \in {"insert", "update", "transact"}

\* The store after the operation has worked on the triple store: the reads
\* leave it alone; insert, and a transact whose callback inserts, write a
\* document; update writes a change; the schema operations run in a
\* transaction of their own
StoreAccess(s, name, ts) ==
    CASE name \in {"fetch", "fetchById", "subscribe"} -> s
      [] name \in {"insert", "transact"} ->
            LET r == insert(s.meta, s.triples, "todos", [a \in {"n"} |-> 0],
                            NoId, <<"g">>, ts)
            IN [s EXCEPT !.triples =
                    TripleStoreTransact(s.triples, r.triples, r.error # None)]
      [] name = "update" ->
            LET r == update(s.meta, s.triples, "todos", <<"x">>,
                            [a \in {"m"} |-> 1], ts)
            IN [s EXCEPT !.triples = transactEnd(s.triples, r.triples,
                                                 r.error).triples]
      [] OTHER -> RunOperation(s, OperationOf(name)).store

\* A public operation is called and runs to its first await
PublicCall(name) ==
    /\ handle.pc = "idle"
    /\ handle.calls < MaxPublicCalls
    /\ WritesData(name) => clock < MaxTick
    /\ handle' = [handle EXCEPT !.pc = FirstAwait(name), !.name = name,
                                !.calls = @ + 1]
    /\ UNCHANGED <<store, mig, tx, clock, px, vs, df, uq>>

\* await this.ensureMigrated goes on
PublicResume ==
    /\ handle.pc = "ensureMigrated"
    /\ ensureMigratedSettled
    /\ handle' = [handle EXCEPT !.pc = "tripleStore"]
    /\ UNCHANGED <<store, mig, tx, clock, px, vs, df, uq>>

\* The operation reads or writes the triple store and ends
PublicAccess ==
    /\ handle.pc = "tripleStore"
    /\ store' = StoreAccess(store, handle.name, clock + 1)
    /\ clock' = IF WritesData(handle.name) THEN clock + 1 ELSE clock
    /\ handle' = [handle EXCEPT !.pc = "idle"]
    /\ UNCHANGED <<mig, tx, px, vs, df, uq>>

InitConstruct ==
    /\ store \in InitialStores
    /\ mig = [MigIdle EXCEPT !.pc = "loop", !.direction = "up"]
    /\ tx = TxIdle
    /\ clock = 0
    /\ px = PxIdle
    /\ vs = VsIdle
    /\ df = DfIdle
    /\ handle = HandleIdle
    /\ uq = UqIdle

NextConstruct ==
    \/ \E migration \in Migrations : MigrateExamine(migration)
    \/ \E operation \in DBOperations : MigrateOperation(operation)
    \/ MigrateCommit
    \/ MigrateSetVersion
    \/ MigrateReturn
    \/ \E name \in PublicOperations : PublicCall(name)
    \/ PublicResume
    \/ PublicAccess

SpecConstruct == InitConstruct /\ [][NextConstruct]_vars

----------------------------------------------------------------------------
(* migrate(list, 'up') is run, and run again with the same list when it    *)
(* has resolved.  The versions of the list increase strictly and every     *)
(* parent is below its version; every operation is a recognized one.       *)

OrderedMigrations ==
    {list \in UNION {[1..n -> {m \in Migrations : m.parent < m.version}] :
                        n \in 0..MaxMigrations} :
        \A i \in 1..Len(list), j \in 1..Len(list) :
            i < j => list[i].version < list[j].version}

\* for (const migration of migrations), on the list of the handle
MigrateExamineListed ==
    /\ mig.i < Len(handle.migrations)
    /\ MigrateExamine(handle.migrations[mig.i + 1])

\* The list of the handle is exhausted
MigrateReturnListed ==
    /\ mig.i = Len(handle.migrations)
    /\ MigrateReturn

\* The first run has resolved: migrate(list, 'up') is called again
MigrateAgain ==
    /\ mig.pc = "resolved"
    /\ handle.run = 0
    /\ mig' = [MigIdle EXCEPT !.pc = "loop", !.direction = "up"]
    /\ handle' = [handle EXCEPT !.run = 1, !.first = store]
    /\ UNCHANGED <<store, tx, clock, px, vs, df, uq>>

InitRerun ==
    /\ store \in InitialStores
    /\ mig = MigIdle
    /\ tx = TxIdle
    /\ clock = 0
    /\ px = PxIdle
    /\ vs = VsIdle
    /\ df = DfIdle
    /\ handle \in {[HandleIdle EXCEPT !.migrations = list, !.initial = store] :
                        list \in OrderedMigrations}
    /\ uq = UqIdle

NextRerun ==
    \/ MigrateCall("up")
    \/ MigrateExamineListed
    \/ \E operation \in DBOperations \ {Unrecognized} :
            MigrateOperation(operation)
    \/ MigrateCommit
    \/ MigrateSetVersion
    \/ MigrateReturnListed
    \/ MigrateAgain

SpecRerun == InitRerun /\ [][NextRerun]_vars

----------------------------------------------------------------------------
(* The read paths: fetch and fetchById on the handle and inside a          *)
(* transaction, and subscribe.  A where clause is the set of its           *)
(* statements; the read rules of the model hold no variable, so            *)
(* replaceVariablesInQuery leaves the clause as it is.                     *)

\* A query that keeps the where clause of its caller
QueryWithoutReadRules(meta, collectionName, where) == where

\* addReadRulesToQuery: [...query.where, ...rules.read.flatMap(r => r.filter)]
addReadRulesToQuery(meta, collectionName, where) ==
    IF HasRules(meta, collectionName, "read")
    THEN where \cup RuleFilters(meta, collectionName, "read")
    ELSE where

\* The ids of the entities of a collection
EntitiesOfCollection(triples, collectionName) ==
    {t.id : t \in {u \in triples : /\ u.attribute = <<"_collection">>
                                    /\ u.value = collectionName
                                    /\ ~u.expired}}

\* fetch of collection-query.ts: the entities of query.collectionName that
\* satisfy query.where
collectionQueryFetch(triples, collectionName, where) ==
    {[id |-> id, entity |-> getEntity(triples, id)] :
        id \in {i \in EntitiesOfCollection(triples, collectionName) :
                    doesEntityObjMatchWhere(getEntity(triples, i), where)}}

\* DB.fetch and DBTransaction.fetch
fetch(meta, triples, collectionName, where) ==
    collectionQueryFetch(triples, collectionName,
                         addReadRulesToQuery(meta, collectionName, where))

\* What fetchById hands to its caller, as a set of entities
FetchedById(meta, triples, collectionName, id) ==
    LET r == fetchById(meta, triples, collectionName, id)
        fullId == appendCollectionToId(collectionName, id)
    IN CASE r.kind = "null" -> {}
         [] r.kind = "timestamped" -> {[id |-> fullId, entity |-> r.doc]}
         [] r.kind = "plain" ->
                {[id |-> fullId, entity |-> getEntity(triples, fullId)]}

ReadWheres == {{}, {<<"n", "!=", 1>>}, {<<"m", "=", 1>>}}

\* The triples a read works on: the working set of the open transaction, or
\* the store
ReadableOn(on) ==
    IF on = "tx" THEN tx.pc = "callback" /\ tx.kind = "transact" ELSE CallOver
TriplesOn(on) == IF on = "tx" THEN tx.work ELSE store.triples

\* db.fetch(query) and tx.fetch(query)
ReadFetch(on, collectionName, where) ==
    /\ ReadableOn(on)
    /\ handle' = [handle EXCEPT !.read =
            [name |-> "fetch", on |-> on, collectionName |-> collectionName,
             entities |-> fetch(store.meta, TriplesOn(on), collectionName,
                                where)]]
    /\ UNCHANGED <<store, mig, tx, clock, px, vs, df, uq>>

\* db.fetchById(collectionName, id) and tx.fetchById(collectionName, id)
ReadFetchById(on, collectionName, id) ==
    /\ ReadableOn(on)
    /\ handle' = [handle EXCEPT !.read =
            [name |-> "fetchById", on |-> on, collectionName |-> collectionName,
             entities |-> FetchedById(store.meta, TriplesOn(on),
                                     collectionName, id)]]
    /\ UNCHANGED <<store, mig, tx, clock, px, vs, df, uq>>

\* db.subscribe(query, callback): startSubscription adds the read rules and
\* hands the query to subscribe of collection-query.ts
DBSubscribe(collectionName, where) ==
    /\ ~handle.sub.on
    /\ handle' = [handle EXCEPT !.sub =
            [on |-> TRUE, collectionName |-> collectionName,
             where |-> addReadRulesToQuery(store.meta, collectionName, where)]]
    /\ UNCHANGED <<store, mig, tx, clock, px, vs, df, uq>>

\* The subscription invokes the callback with the results of its query, at
\* first and after the writes to the store
SubscriptionResults ==
    /\ handle.sub.on
    /\ handle' = [handle EXCEPT !.read =
            [name |-> "subscribe", on |-> "db",
             collectionName |-> handle.sub.collectionName,
             entities |-> collectionQueryFetch(store.triples,
                              handle.sub.collectionName, handle.sub.where)]]
    /\ UNCHANGED <<store, mig, tx, clock, px, vs, df, uq>>

InitRead ==
    /\ store \in {[meta |-> m, triples |-> {}] :
                    m \in {SchemaOf(FALSE, <<>>), SchemaOf(TRUE, RulesR)}}
    /\ mig = MigIdle
    /\ tx = TxIdle
    /\ clock = 0
    /\ px = PxIdle
    /\ vs = VsIdle
    /\ df = DfIdle
    /\ handle = HandleIdle
    /\ uq = UqIdle

NextRead ==
    \/ Transact("transact")
    \/ \E doc \in Docs, id \in {NoId, [given |-> TRUE, value |-> <<"x">>]} :
            TxInsert("todos", doc, id, <<"g">>)
    \/ CallbackReturns("undefined", "undefined")
    \/ \E doc \in Docs, id \in {NoId, [given |-> TRUE, value |-> <<"x">>]} :
            DBInsert("todos", doc, id, <<"g">>)
    \/ \E on \in {"db", "tx"}, where \in ReadWheres :
            ReadFetch(on, "todos", where)
    \/ \E on \in {"db", "tx"}, id \in {<<"x">>, <<"g">>} :
            ReadFetchById(on, "todos", id)
    \/ \E where \in ReadWheres : DBSubscribe("todos", where)
    \/ SubscriptionResults

SpecRead == InitRead /\ [][NextRead]_vars

----------------------------------------------------------------------------
(* useQuery(client, collectionName, queryBuilder, options).  The client is *)
(* the environment: it invokes the callbacks of a subscription that was    *)
(* not unsubscribed, resolves the promises of isFirstTimeFetchingQuery and *)
(* reports its connection status, in any order.  The two effects run at    *)
(* creation and are run again by the scheduler after builtQuery changed.   *)

Statuses == {"CONNECTING", "OPEN", "CLOSING", "CLOSED"}
QueryNumbers == 1..(1 + MaxUpdates)

\* computed(() => fetchingLocal.value ||
\*                (isInitialFetch.value && fetchingRemote.value))
fetching == uq.fetchingLocal \/ (uq.isInitialFetch /\ uq.fetchingRemote)

\* The listener given to client.onConnectionStatusChange
onConnectionStatusChange(q, status) ==
    [q EXCEPT !.status = status,
              !.fetchingRemote =
                  IF status \in {"CLOSING", "CLOSED"} THEN FALSE
                  ELSE IF status = "OPEN" /\ ~q.hasResponseFromServer THEN TRUE
                  ELSE @]

\* The refs after useQuery has returned: both effects have run once, the
\* listener has been called with the status of the moment
Created(status) ==
    onConnectionStatusChange(
        [UqIdle EXCEPT !.query = 1, !.watched = 1, !.subs = {1},
                       !.asked = {1}, !.fetchingRemote = status # "CLOSED"],
        status)

\* updateQuery(newQueryBuilder)
UpdateQuery ==
    /\ uq.query < 1 + MaxUpdates
    /\ uq' = [uq EXCEPT !.query = @ + 1, !.results = 0,
                        !.fetchingLocal = TRUE,
                        !.hasResponseFromServer = FALSE, !.current = FALSE]
    /\ UNCHANGED <<store, mig, tx, clock, px, vs, df, handle>>

\* The scheduler runs both effects again for the new builtQuery.  Each
\* effect returns a function instead of registering one with the onCleanup
\* argument that watchEffect gives it; cleanup tells whether the runtime
\* called the function the subscribing effect returned at its last run.
EffectsRun(cleanup) ==
    /\ uq.watched # uq.query
    /\ uq' = [onConnectionStatusChange(uq, uq.status) EXCEPT
                 !.watched = uq.query,
                 !.asked = @ \cup {uq.query},
                 !.subs = (IF cleanup THEN {} ELSE @) \cup {uq.query}]
    /\ UNCHANGED <<store, mig, tx, clock, px, vs, df, handle>>

\* A subscription of query q invokes the results callback
ResultsCallback(q) ==
    /\ q \in uq.subs
    /\ uq' = [uq EXCEPT !.fetchingLocal = FALSE, !.error = 0, !.results = q,
                        !.current = @ \/ q = uq.query]
    /\ UNCHANGED <<store, mig, tx, clock, px, vs, df, handle>>

\* A subscription of query q invokes the error callback
ErrorCallback(q) ==
    /\ q \in uq.subs
    /\ uq' = [uq EXCEPT !.fetchingLocal = FALSE, !.error = q,
                        !.current = @ \/ q = uq.query]
    /\ UNCHANGED <<store, mig, tx, clock, px, vs, df, handle>>

\* A subscription of query q invokes onRemoteFulfilled
RemoteFulfilled(q) ==
    /\ q \in uq.subs
    /\ uq' = [uq EXCEPT !.hasResponseFromServer = TRUE,
                        !.fetchingRemote = FALSE]
    /\ UNCHANGED <<store, mig, tx, clock, px, vs, df, handle>>

\* client.isFirstTimeFetchingQuery(q) resolves: the then-handler runs
FirstTimeAnswer(q, isFirstFetch) ==
    /\ q \in uq.asked
    /\ uq' = [uq EXCEPT !.isInitialFetch = isFirstFetch, !.asked = @ \ {q}]
    /\ UNCHANGED <<store, mig, tx, clock, px, vs, df, handle>>

\* The connection status changes: the listener is called
ConnectionStatusChange(status) ==
    /\ status # uq.status
    /\ uq' = onConnectionStatusChange(uq, status)
    /\ UNCHANGED <<store, mig, tx, clock, px, vs, df, handle>>

InitQuery ==
    /\ store = EmptyStore
    /\ mig = MigIdle
    /\ tx = TxIdle
    /\ clock = 0
    /\ px = PxIdle
    /\ vs = VsIdle
    /\ df = DfIdle
    /\ handle = HandleIdle
    /\ uq \in {Created(status) : status \in Statuses}

NextQuery ==
    \/ UpdateQuery
    \/ \E cleanup \in BOOLEAN : EffectsRun(cleanup)
    \/ \E q \in QueryNumbers : ResultsCallback(q)
    \/ \E q \in QueryNumbers : ErrorCallback(q)
    \/ \E q \in QueryNumbers : RemoteFulfilled(q)
    \/ \E q \in QueryNumbers, isFirstFetch \in BOOLEAN :
            FirstTimeAnswer(q, isFirstFetch)
    \/ \E status \in Statuses : ConnectionStatusChange(status)

SpecQuery == InitQuery /\ [][NextQuery]_vars

----------------------------------------------------------------------------
(* One update and its updater *)

InitProxy ==
    /\ store = EmptyStore
    /\ mig = MigIdle
    /\ tx = TxIdle
    /\ clock = 0
    /\ px = PxIdle
    /\ vs = VsIdle
    /\ df = DfIdle
    /\ handle = HandleIdle
    /\ uq = UqIdle

NextProxy ==
    \/ \E entity \in FetchedEntities,
          schema \in {NoCollectionSchema, TodoAttributes} :
            UpdaterCalled(entity, schema)
    \/ \E path \in AssignPaths, value \in AssignedValues :
            UpdaterAssigns(path, value)
    \/ \E path \in ReadPaths : UpdaterReads(path)
    \/ \E name \in {"add", "remove", "has"}, path \in SetPaths,
          member \in Members :
            UpdaterCallsSet(name, path, member)
    \/ UpdaterResolves
    \/ UpdaterThrows

SpecProxy == InitProxy /\ [][NextProxy]_vars

----------------------------------------------------------------------------
(* A DB whose variables change while it is queried *)

InitVariables ==
    /\ store = EmptyStore
    /\ mig = MigIdle
    /\ tx = TxIdle
    /\ clock = 0
    /\ px = PxIdle
    /\ vs \in {[VsIdle EXCEPT !.variables = variables] :
                    variables \in {NoVariables, W :> Num(1)}}
    /\ df = DfIdle
    /\ handle = HandleIdle
    /\ uq = UqIdle

NextVariables ==
    \/ \E variables \in VariableUpdates : UpdateVariables(variables)
    \/ \E query \in Queries : Subscribe(query)
    \/ SubscriptionStarts
    \/ \E query \in Queries : Fetch(query)

SpecVariables == InitVariables /\ [][NextVariables]_vars

\* One query object is fetched again and again while the variables change
NextHeld ==
    \/ \E variables \in VariableUpdates : UpdateVariables(variables)
    \/ \E query \in Queries : BuildQuery(query)
    \/ FetchHeld

SpecHeld == InitVariables /\ [][NextHeld]_vars

\* A subscription and the calls of the function subscribe() returned
NextSubscribe ==
    \/ \E query \in Queries : Subscribe(query)
    \/ SubscriptionStarts
    \/ Unsubscribe
    \/ UnsubscribeSettles
    \/ InitialResults
    \/ Notification

SpecSubscribe == InitVariables /\ [][NextSubscribe]_vars

----------------------------------------------------------------------------
(* Two schemas are diffed, the diff is classified and checked against a DB *)

InitDiff ==
    /\ store = EmptyStore
    /\ mig = MigIdle
    /\ tx = TxIdle
    /\ clock = 0
    /\ px = PxIdle
    /\ vs = VsIdle
    /\ df = DfIdle
    /\ handle = HandleIdle
    /\ uq = UqIdle

NextDiff ==
    \/ \E schemaA \in Schemas, schemaB \in Schemas :
            DiffSchemas(schemaA, schemaB)
    \/ GetBackwardsIncompatibleEdits
    \/ \E db \in Databases : GetSchemaDiffIssues(db)

SpecDiff == InitDiff /\ [][NextDiff]_vars

\* A schema change is checked again and again while the DB is written
NextData ==
    \/ \E x \in Descriptors, y \in Descriptors :
            DiffSchemas(wrapSchema(x, Absent), wrapSchema(y, Absent))
    \/ GetBackwardsIncompatibleEdits
    \/ GetSchemaDiffIssues(df.db)
    \/ \E entity \in Entities : InsertEntity(entity)
    \/ \E entity \in Entities, value \in {"'a'", "'e'"} :
            UpdateEntity(entity, value)

SpecData == InitDiff /\ [][NextData]_vars

----------------------------------------------------------------------------
(* Properties of migrate *)

VersionTuples(meta) == {t \in meta : t.a = <<"version">>}

\* The gate as section 4.7 states it
GatePasses(migration, direction, version) ==
    \/ direction = "up" /\ migration.parent = version
    \/ direction = "down" /\ migration.version = version

\* A step of migrate that examines the next migration of the list
ExamineStep ==
    /\ mig.pc = "loop"
    /\ mig'.pc \in {"loop", "apply"}
    /\ mig' # mig

\* C1: each migration is examined against the version stored at that
\* moment; its operations are run iff the gate of its direction passes; a
\* migration that does not pass is skipped, the store (schema, version and
\* data) is left as it was and the loop goes on with the next migration.
C1_GateDecidesEachMigration ==
    [][ExamineStep =>
          LET passes == GatePasses(mig'.migration, mig.direction,
                                   dbVersionOf(store.meta))
          IN /\ (mig'.pc = "apply") <=> passes
             /\ ~passes => /\ store' = store
                           /\ mig'.pc = "loop"
                           /\ mig'.i = mig.i + 1
                           /\ mig'.last = "skipped"]_vars

\* The first migration was applied and wrote version MaxVersion; the second
\* one was examined against that version and skipped.
C1_Witness ==
    /\ mig.last = "skipped"
    /\ mig.i = 2
    /\ mig.dbVersion = MaxVersion
    /\ mig.direction = "down"
    /\ store = mig.pre

\* C2: when an operation of a migration fails, the store holds none of the
\* effects of the operations of that migration that ran before it: schema
\* tuples and data triples are those of before the migration.
C2_FailedMigrationLeavesNothing ==
    mig.last = "failed" => store = mig.pre

\* The second operation failed after the first had changed schema tuples
\* and data triples in the transaction.
C2_Witness ==
    /\ mig.last = "failed"
    /\ mig.k = 1
    /\ mig.work.meta # mig.pre.meta
    /\ mig.work.triples # mig.pre.triples

\* C3: in no state are the operations of a migration committed while the
\* stored version still has the value of before the migration (for a
\* migration that changes the store and leads to another version).
C3_VersionCommittedWithOperations ==
    (/\ mig.last = "applied"
     /\ store # mig.pre
     /\ VersionTuple(mig.migration, mig.direction).v # dbVersionOf(mig.pre.meta))
        => dbVersionOf(store.meta) # dbVersionOf(mig.pre.meta)

\* C4: after a migration passed the gate and its operations succeeded, the
\* stored version is migration.version (up) or migration.parent (down), and
\* no other step of migrate changes the stored version.
C4_VersionAfterMigration ==
    [][/\ mig'.last = "versioned" =>
            dbVersionOf(store'.meta) =
                (IF mig'.direction = "up" THEN mig'.migration.version
                 ELSE mig'.migration.parent)
       /\ VersionTuples(store'.meta) # VersionTuples(store.meta) =>
            /\ mig.last = "applied"
            /\ mig'.last = "versioned"]_vars

\* A migration was run downwards and the stored version went from its
\* version to its parent.
C4_Witness ==
    /\ mig.last = "versioned"
    /\ mig.direction = "down"
    /\ mig.migration.parent # mig.migration.version
    /\ mig.migration.version = dbVersionOf(mig.pre.meta)
    /\ mig.migration.parent = dbVersionOf(store.meta)
    /\ mig.k > 0

\* C5: when applying a migration fails, migrate rejects with that error
\* (InvalidMigrationOperation for an unrecognised operation) and the stored
\* version is the one of before the migration.
C5_FailureRejectsAndKeepsVersion ==
    mig.last = "failed" =>
        /\ mig.pc = "rejected"
        /\ mig.error = "InvalidMigrationOperation"
        /\ VersionTuples(store.meta) = VersionTuples(mig.pre.meta)

\* The second migration of the list failed, after the first had moved the
\* version.
C5_Witness ==
    /\ mig.last = "failed"
    /\ mig.pc = "rejected"
    /\ mig.i = 1
    /\ VersionTuples(store.meta) # {}
    /\ dbVersionOf(store.meta) = MaxVersion

\* The schema tuples below the attribute path / below the collection
AttributeTuples(meta, collection, path) ==
    {t \in meta : IsPrefix(<<"collections", collection, "attributes", path>>,
                           t.a)}
CollectionTuples(meta, collection) ==
    {t \in meta : IsPrefix(<<"collections", collection>>, t.a)}

\* The data triples whose attribute starts with [collection, path]
TriplesAt(triples, collection, path) ==
    {t \in triples : IsPrefix(<<collection, path>>, t.attribute)}

\* C21: when renameAttribute(collection, path, newPath) has run, the
\* transaction holds no data triple whose attribute starts with
\* [collection, path], in any storage scope, and no _schema tuple below
\* ['collections', collection, 'attributes', path], with or without schema.
C21_RenameLeavesNothingBehind ==
    [][\A operation \in DBOperations :
          (operation[1] = "rename_attribute" /\ MigrateOperation(operation))
            => /\ TriplesAt(mig'.work.triples, operation[2].collection,
                            operation[2].path) = {}
               /\ AttributeTuples(mig'.work.meta, operation[2].collection,
                                  operation[2].path) = {}]_vars

\* A rename was committed that moved the triple of the outbox scope and the
\* schema tuple of the attribute.
C21_Witness ==
    /\ mig.last = "applied"
    /\ \E t \in store.triples :
            t.scope = "outbox" /\ t.attribute = <<"todos", "b">>
    /\ AttributeTuples(store.meta, "todos", "b") # {}
    /\ AttributeTuples(mig.pre.meta, "todos", "a") # {}
    /\ TriplesAt(mig.pre.triples, "todos", "a") # {}

C23_DropCollectionClearsSchemaOnly ==
    [][\A operation \in DBOperations :
          (operation[1] = "drop_collection" /\ MigrateOperation(operation))
            => /\ CollectionTuples(mig'.work.meta, operation[2].name) = {}
               /\ mig'.work.meta \ CollectionTuples(mig'.work.meta,
                                                     operation[2].name)
                    = mig.work.meta \ CollectionTuples(mig.work.meta,
                                                       operation[2].name)
               /\ mig'.work.triples = mig.work.triples]_vars

\* A drop of todos was committed on a store with the schema of two
\* collections and data of todos.
C23_Witness ==
    /\ mig.last = "applied"
    /\ CollectionTuples(mig.pre.meta, "todos") # {}
    /\ CollectionTuples(store.meta, "todos") = {}
    /\ CollectionTuples(store.meta, "notes") # {}
    /\ VersionTuples(store.meta) # {}
    /\ TriplesAt(store.triples, "todos", "a") # {}

----------------------------------------------------------------------------
(* Properties of transact, update and insert *)

\* The writes of the running transaction: the triples at its timestamp
TxWrites == {t \in tx.work : t.ts = tx.ts}

\* C6: when the callback of transact returns, every write it made through
\* the transaction is committed; when it throws, the transaction is
\* cancelled, none of its writes is committed and transact rejects with
\* what the callback threw.
C6_TransactCommitsOrCancels ==
    tx.kind \in {"transact", "update"} =>
        /\ tx.ended = "returned" =>
              /\ tx.pc = "resolved"
              /\ TxWrites \subseteq store.triples
        /\ tx.ended = "threw" =>
              /\ tx.pc = "rejected"
              /\ tx.error = tx.thrown
              /\ store.triples = tx.pre

\* The callback wrote twice and then threw an error of its own.
C6_Witness ==
    /\ tx.kind = "transact"
    /\ tx.ended = "threw"
    /\ tx.thrown = "Error"
    /\ tx.n = 2
    /\ Cardinality(TxWrites) > 2
    /\ store.triples = tx.pre

\* C7: once an update of a transaction has raised WriteRuleViolation,
\* nothing that transaction wrote is ever committed, whatever the callback
\* does with the error.
C7_ViolatingUpdateNeverCommitted ==
    tx.violated => store.triples = tx.pre

\* The entity as it would be after the update: the fetched document with
\* the staged values
EntityAfter(old, changes) ==
    [a \in DOMAIN old \cup DOMAIN changes |->
        IF a \in DOMAIN changes THEN changes[a] ELSE old[a]]

ViolatesWriteRules(doc) ==
    \E statement \in RuleFilters(store.meta, "todos", "write") :
        ~isOperatorSatisfied(objectToTimestampedObject(doc), statement)

C11_UpdateOfMissingEntity ==
    (/\ tx.op.name = "update"
     /\ EntityTriples(tx.op.before,
                      appendCollectionToId("todos", tx.op.entityId)) = {})
        => /\ tx.op.error = "EntityNotFound"
           /\ ~tx.op.called
           /\ ~tx.op.wrote
           /\ tx.work = tx.op.before
           /\ tx.pc \in {"resolved", "rejected"} =>
                    \A t \in store.triples :
                        t.id # appendCollectionToId("todos", tx.op.entityId)

\* The second operation of a transaction was an update of an entity that
\* does not exist, after an insert of another entity had written.
C11_Witness ==
    /\ tx.kind = "transact"
    /\ tx.n = 2
    /\ tx.op.name = "update"
    /\ tx.op.error = "EntityNotFound"
    /\ TxWrites # {}
    /\ tx.work = tx.op.before

SeparatorCount(id) == Cardinality({k \in 1..Len(id) : id[k] = ID_SEPARATOR})

StoredIds == {t.id : t \in store.triples \cup tx.work}

\* C10: an insert with an id that contains '#' throws InvalidEntityId before
\* the store is read or written, and the transaction holds what it held;
\* every stored entity id is <collection>#<externalId> with one separator.
C10_SeparatorInIdRejected ==
    /\ (tx.op.name = "insert" /\ tx.op.id.given
            /\ Includes(tx.op.id.value, ID_SEPARATOR))
        => /\ tx.op.error = "InvalidEntityId"
           /\ ~tx.op.read
           /\ ~tx.op.wrote
           /\ tx.work = tx.op.before
    /\ \A id \in StoredIds :
          /\ id[1] \in Collections
          /\ id[2] = ID_SEPARATOR
          /\ SeparatorCount(id) = 1

\* An insert with the id x#y was rejected inside a transaction that had
\* written before.
C10_Witness ==
    /\ tx.kind = "transact"
    /\ tx.op.name = "insert"
    /\ tx.op.error = "InvalidEntityId"
    /\ tx.op.id.value = <<"x", "#", "y">>
    /\ TxWrites # {}
    /\ tx.work = tx.op.before

\* The entity passes the read rules of the collection, if it has any
PassesReadRules(timestamped) ==
    HasRules(store.meta, "todos", "read") =>
        \A statement \in RuleFilters(store.meta, "todos", "read") :
            isOperatorSatisfied(timestamped, statement)

\* C19: fetchById gives null when the collection holds no entity with the
\* id, and otherwise, for a collection without read rules or an entity that
\* satisfies them, the plain document of the entity, its leaves without
\* timestamps.
C19_FetchByIdReturnsPlainDocument ==
    tx.kind = "fetchById" =>
        LET fullId == appendCollectionToId("todos", tx.op.entityId)
            entity == getEntity(store.triples, fullId)
        IN IF EntityTriples(store.triples, fullId) = {}
           THEN tx.fetched.kind = "null"
           ELSE PassesReadRules(entity) =>
                    /\ tx.fetched.kind = "plain"
                    /\ tx.fetched.doc = [a \in DOMAIN entity |-> entity[a][1]]

\* C20: after db.insert(collection, doc, id) has succeeded for an id that
\* was not in the collection, with a document that passes the read rules,
\* fetchById(collection, id) gives a document equal to doc.
C20_InsertThenFetchById ==
    (/\ tx.kind = "insert"
     /\ tx.pc = "resolved"
     /\ tx.op.id.given
     /\ EntityTriples(tx.pre, appendCollectionToId("todos", tx.op.id.value))
            = {}
     /\ PassesReadRules(objectToTimestampedObject(tx.op.doc)))
        => LET fetched == fetchById(store.meta, store.triples, "todos",
                                    tx.op.id.value)
           IN /\ fetched.kind = "plain"
              /\ fetched.doc = tx.op.doc

\* C25: when DB.transact(cb) has resolved, it has resolved to the value cb
\* returned.
C25_TransactResolvesToCallbackValue ==
    (tx.kind = "transact" /\ tx.pc = "resolved")
        => tx.result = tx.returned

----------------------------------------------------------------------------
(* Properties of the update proxy *)

LastPath == px.last.path
LastPointer == PathToPointer(px.last.path)

\* The fetched entity holds a record at the parent of the path
ParentIsRecord(entity, path) ==
    \/ Len(path) = 1
    \/ DOMAIN SubObject(entity, SubSeq(path, 1, Len(path) - 1)) # {}

IsSetPath(schema, path) ==
    schema.defined /\ IsSetSchema(getSchemaFromPath(schema, path))

\* C12: an assignment through the proxy at a path of any depth, whose parent
\* is a record of the fetched entity and which the schema allows, adds the
\* pair (full path, value) to the change map and nothing else; once the
\* updater has resolved there is one write per staged path, at attribute
\* [collection, ...path].
C12_AssignmentStagesPath ==
    /\ (/\ px.last.stmt = "assign"
        /\ ParentIsRecord(px.entity, LastPath)
        /\ ~IsSetPath(px.schema, LastPath)
        /\ px.schema.defined => LastPath \in DOMAIN px.schema.attributes)
        => /\ px.last.error = None
           /\ px.changes = MapSet(px.last.before, LastPointer, px.last.value)
    /\ px.pc = "written" =>
          /\ Len(px.writes) = Len(px.changes)
          /\ \A i \in 1..Len(px.changes) :
                /\ px.writes[i].value = px.changes[i].v
                /\ PathToPointer(Tail(px.writes[i].attribute)) = px.changes[i].k
                /\ Head(px.writes[i].attribute) = "todos"

\* C13: reading a path through the proxy, at the top level or inside a
\* record, gives the value staged for the path if there is one, otherwise
\* the value of the fetched entity at the path, otherwise undefined.
C13_ReadReturnsStagedOrFetched ==
    (/\ px.last.stmt = "read"
     /\ ParentIsRecord(px.entity, LastPath)
     /\ ValuePointerGet(px.entity, LastPointer).kind # "object")
        => px.last.result =
              IF MapHas(px.changes, LastPointer)
              THEN MapGet(px.changes, LastPointer)
              ELSE ValuePointerGet(px.entity, LastPointer)

\* C14: an assignment to a field that the schema marks as a Set fails and
\* stages nothing.
C14_SetAssignmentForbidden ==
    (px.last.stmt = "assign" /\ IsSetPath(px.schema, LastPath))
        => /\ px.last.error # None
           /\ px.changes = px.last.before

TagsPointer == PathToPointer(<<"tags">>)

LastCall(m) == px.calls[m][Len(px.calls[m])]

\* Whether m is in the set, by the calls made and the fetched entity
MemberNow(m) ==
    IF px.calls[m] # <<>> THEN LastCall(m) = "add"
    ELSE <<"tags", m>> \in DOMAIN px.entity /\ px.entity[<<"tags", m>>] = "true"

\* C15: for the add and remove calls of one updater on a Set field, the
\* last call on a member decides what is staged and written for it, calls
\* on other members leave it alone, and has(m) gives what the last call on
\* m staged, or the fetched membership when there was none.
C15_LastSetCallDecides ==
    \A m \in Members :
        LET staged == MapGet(px.changes, PointerJoin(TagsPointer, m))
            written == {i \in 1..Len(px.writes) :
                           px.writes[i].attribute = <<"todos", "tags", m>>}
        IN /\ staged = IF px.calls[m] = <<>> THEN Undefined
                       ELSE IF LastCall(m) = "add" THEN ValueOf("true")
                       ELSE ValueOf("false")
           /\ (px.last.stmt = "has" /\ px.last.error = None
                    /\ px.last.value = m)
                => Truthy(px.last.result) = MemberNow(m)
           /\ (px.pc = "written" /\ px.calls[m] # <<>>)
                => /\ Cardinality(written) = 1
                   /\ \A i \in written :
                         (px.writes[i].value = "true") = MemberNow(m)

\* add(x), remove(x), then has(x) on a set that was fetched with x in it
C15_Witness ==
    /\ px.calls["x"] = <<"add", "remove">>
    /\ px.last.stmt = "has"
    /\ px.last.value = "x"
    /\ px.last.result = ValueOf("false")
    /\ <<"tags", "x">> \in DOMAIN px.entity

\* C16: with a schema, an assignment to a path the schema does not define
\* fails with UnknownAttribute and stages nothing; without a schema an
\* assignment at the top level or in a record of the entity is staged.
C16_UnknownAttributeRejected ==
    (px.last.stmt = "assign" /\ ParentIsRecord(px.entity, LastPath)) =>
        /\ (px.schema.defined /\ LastPath \notin DOMAIN px.schema.attributes)
            => /\ px.last.error = "UnknownAttribute"
               /\ px.changes = px.last.before
        /\ (~px.schema.defined /\ Len(LastPath) <= 2)
            => /\ px.last.error = None
               /\ MapGet(px.changes, LastPointer) = ValueOf(px.last.value)

----------------------------------------------------------------------------
(* Properties of variables *)

\* The names the leaves of a where clause refer to
RECURSIVE ReferencedNames(_)
ReferencedNames(where) ==
    UNION {IF where[i].isGroup THEN ReferencedNames(where[i].filters)
           ELSE IF IsVariable(where[i].value) THEN {Tail(where[i].value.s)}
           ELSE {} : i \in 1..Len(where)}

\* The where clause with every reference replaced by what the scope binds
RECURSIVE ResolvedWhere(_, _)
ResolvedWhere(where, scope) ==
    [i \in 1..Len(where) |->
        IF where[i].isGroup
        THEN [where[i] EXCEPT !.filters = ResolvedWhere(@, scope)]
        ELSE IF IsVariable(where[i].value)
        THEN [where[i] EXCEPT !.value = scope[Tail(@.s)]]
        ELSE where[i]]

\* C17: resolving the variables of a where clause raises
\* SessionVariableNotFound exactly when a referenced name is not bound in
\* the scope, and otherwise replaces every '$' leaf, at any depth, by the
\* bound value, whatever it is, and leaves the other leaves as they are.
C17_VariablesResolved ==
    vs.fetch.pc # "none" =>
        LET scope == Spread(vs.fetch.atCall, vs.fetch.query.vars)
            unbound == ReferencedNames(vs.fetch.query.where) \ DOMAIN scope
        IN /\ (vs.fetch.error = "SessionVariableNotFound") = (unbound # {})
           /\ unbound = {} =>
                vs.fetch.where = ResolvedWhere(vs.fetch.query.where, scope)

\* C18: a subscription evaluates its query with the variables the DB had
\* when subscribe() was called, whatever updateVariables does afterwards;
\* a fetch uses the variables of the moment it resolves its query.
C18_SubscriptionUsesVariablesOfCall ==
    /\ vs.sub.pc \in {"started", "failed"} =>
          [error |-> vs.sub.error, where |-> vs.sub.where]
              = replaceVariablesInQuery(vs.sub.atCall, vs.sub.query)
    /\ vs.fetch.pc # "none" =>
          [error |-> vs.fetch.error, where |-> vs.fetch.where]
              = replaceVariablesInQuery(vs.fetch.atCall, vs.fetch.query)

----------------------------------------------------------------------------
(* Properties of the function subscribe returns *)

\* C24: the function subscribe() returned may be called at any time and any
\* number of times: once a call has resolved, the underlying subscription is
\* closed, the callback has not been invoked since the first call resolved,
\* and no call has raised an error.
C24_UnsubscribeClosesOnce ==
    vs.un.resolved > 0
        => /\ vs.un.closed
           /\ vs.un.after = 0
           /\ vs.un.rejected = 0

\* A call made before the start had finished and a second call have both
\* resolved, after the callback had been invoked.
C24_Witness ==
    /\ vs.un.early
    /\ vs.un.resolved >= 2
    /\ vs.un.delivered >= 1
    /\ vs.un.closed

----------------------------------------------------------------------------
(* Properties of the schema-diff engine *)

Positions(diffs, type) ==
    {i \in 1..Len(diffs) : IsAttributeEdit(diffs[i], type)}

Project(d) ==
    [collection |-> d.collection, attribute |-> d.attribute,
     metadata |-> d.metadata]

\* The edits of one type in d1 and those of another in d2 are as many, all
\* distinct, and the same up to the type
OneToOne(d1, type1, d2, type2) ==
    LET P1 == {Project(d1[i]) : i \in Positions(d1, type1)}
        P2 == {Project(d2[i]) : i \in Positions(d2, type2)}
    IN /\ P1 = P2
       /\ Cardinality(P1) = Cardinality(Positions(d1, type1))
       /\ Cardinality(P2) = Cardinality(Positions(d2, type2))

Count(diffs, diff, collection) ==
    Cardinality({i \in 1..Len(diffs) :
                    diffs[i].diff = diff /\ diffs[i].collection = collection})

\* C26: for every schema s, diffSchemas(s, s) is the empty list.
C26_DiffOfSchemaWithItselfIsEmpty ==
    (df.pc # "idle" /\ df.a = df.b) => df.diff = <<>>

\* A schema with a record of one field, and one with rules, permissions,
\* roles and a second collection, were each diffed with themselves.
C26_Witness ==
    /\ df.pc # "idle"
    /\ df.a = df.b
    /\ \/ df.a.collections["first"].attributes["x"].fields["k"].type = "string"
       \/ /\ df.a.collections["first"].rules # "undefined"
          /\ df.a.collections["first"].permissions # "undefined"
          /\ df.a.roles # "undefined"
          /\ df.a.collections["second"].present

\* C27: the collectionAttribute inserts of diffSchemas(a, b) and the deletes
\* of diffSchemas(b, a) correspond one to one with the same collection,
\* attribute path and metadata, and so do the deletes and the inserts; an
\* insert has isNewCollection = true exactly when the whole collection is
\* absent from the old schema.
C27_InsertsMirrorDeletes ==
    df.pc # "idle"
        => /\ OneToOne(df.diff, "insert", diffSchemas(df.b, df.a), "delete")
           /\ OneToOne(df.diff, "delete", diffSchemas(df.b, df.a), "insert")
           /\ \A i \in Positions(df.diff, "insert") :
                 df.diff[i].isNewCollection
                    <=> ~df.a.collections[df.diff[i].collection].present

\* A diff with an insert into a new collection, or with an insert into an
\* old collection next to a delete.
C27_Witness ==
    /\ df.pc # "idle"
    /\ \/ \E i \in Positions(df.diff, "insert") : df.diff[i].isNewCollection
       \/ /\ \E i \in Positions(df.diff, "insert") :
                ~df.diff[i].isNewCollection
          /\ Positions(df.diff, "delete") # {}

\* C28: diffSchemas emits exactly one collectionRules record for a
\* collection iff its rules differ between the two schemas, exactly one
\* collectionPermissions record iff its permissions differ, exactly one
\* roles record iff the roles differ, and no collectionAttribute record for
\* a collection whose attribute maps are equal.
C28_BlobRecordsIffBlobsDiffer ==
    df.pc # "idle"
        => /\ \A c \in CollectionNames :
                /\ Count(df.diff, "collectionRules", c)
                     = IF df.a.collections[c].rules = df.b.collections[c].rules
                       THEN 0 ELSE 1
                /\ Count(df.diff, "collectionPermissions", c)
                     = IF df.a.collections[c].permissions
                            = df.b.collections[c].permissions
                       THEN 0 ELSE 1
                /\ df.a.collections[c].attributes
                        = df.b.collections[c].attributes
                     => Count(df.diff, "collectionAttribute", c) = 0
           /\ Count(df.diff, "roles", "undefined")
                = IF df.a.roles = df.b.roles THEN 0 ELSE 1

\* Rules were changed, permissions removed and roles added, with the
\* attributes as they were.
C28_Witness ==
    /\ df.pc # "idle"
    /\ df.a.collections["first"].rules = "can-read"
    /\ df.b.collections["first"].rules = "cant-read"
    /\ df.a.collections["first"].permissions # "undefined"
    /\ df.b.collections["first"].permissions = "undefined"
    /\ df.a.roles = "undefined" /\ df.b.roles # "undefined"
    /\ Len(df.diff) = 3

\* The edits the sentence lists
ListedEdit(d) ==
    /\ d.diff = "collectionAttribute"
    /\ \/ d.type = "delete" /\ ~d.metadata.optional
       \/ d.type = "insert" /\ ~d.metadata.optional
       \/ /\ d.type = "update"
          /\ \/ d.changes.type # "unchanged"
             \/ d.changes.items # "unchanged"
             \/ d.changes.optional = "false"
             \/ d.changes.options.nullable = "false"
             \/ /\ d.changes.options.enum.changed
                /\ d.changes.options.enum.enum.on
                /\ ~(/\ d.from.options.enum.on
                     /\ d.from.options.enum.values
                            \subseteq d.changes.options.enum.enum.values)

FieldRemoval(d) ==
    d.diff = "collectionAttribute" /\ d.type = "delete"
    /\ Len(d.attribute) > 1

Returned(edits) == [i \in 1..Len(edits) |-> edits[i].context]

ListedEdits(diffs) == SelectSeq(diffs, ListedEdit)

ListedEditOrFieldRemoval(d) == ListedEdit(d) \/ FieldRemoval(d)

\* C29 as stated: getBackwardsIncompatibleEdits(diffs) returns exactly the
\* deletes and inserts of non-optional attributes, the type changes (Set
\* item and Record field types included), optional or nullable turned from
\* true to false, and the enum changes whose new enum is not a superset of
\* the old one.
C29_ExactlyTheListedEdits ==
    df.pc \in {"classified", "checked"}
        => Returned(df.edits) = ListedEdits(df.diff)

\* C29, amended: it returns exactly the listed edits and the removals of a
\* field inside a Record, optional or not; it never returns an edit that
\* makes an attribute optional or nullable, adds a default, adds an
\* optional attribute, widens or removes an enum, or changes rules, roles
\* or permissions.
C29_ListedEditsAndFieldRemovals ==
    df.pc \in {"classified", "checked"}
        => Returned(df.edits) = SelectSeq(df.diff, ListedEditOrFieldRemoval)

\* The removal of an optional field of a Record was returned.
C29_Witness ==
    /\ df.pc = "classified"
    /\ \E i \in 1..Len(df.edits) :
            /\ FieldRemoval(df.edits[i].context)
            /\ df.edits[i].context.metadata.optional

\* C30: getSchemaDiffIssues(tx, diffs) returns one record for each
\* backwards-incompatible edit of diffs and none for any other edit; a diff
\* of backwards-compatible edits only yields no record with
\* violatesExistingData = true, whatever the DB holds.
C30_IssuesOnlyForIncompatibleEdits ==
    df.pc = "checked"
        => /\ [i \in 1..Len(df.issues) |-> df.issues[i].diff]
                = SelectSeq(df.diff, IsBackwardsIncompatible)
           /\ (\A i \in 1..Len(df.diff) :
                    ~IsBackwardsIncompatible(df.diff[i]))
                => \A j \in 1..Len(df.issues) :
                        ~df.issues[j].violatesExistingData

\* An enum was widened and nothing else changed, and the DB holds an
\* entity whose value is in neither enum.
C30_Witness ==
    /\ df.pc = "checked"
    /\ Len(df.diff) = 1
    /\ df.diff[1].changes.options.enum.changed
    /\ ~IsBackwardsIncompatible(df.diff[1])
    /\ \E e \in df.db : e.collection = "first" /\ e.values[<<"x">>] = "'e'"

\* The entities of the collection of an edit
EntitiesOf(d) == {e \in df.db : e.collection = d.collection}

\* C31: when the collection an edit belongs to holds no entity,
\* getSchemaDiffIssues reports violatesExistingData = false for the edit,
\* whatever the kind of the edit and the direction of the change.
C31_EmptyCollectionNeverViolated ==
    df.pc = "checked"
        => \A j \in 1..Len(df.issues) :
              EntitiesOf(df.issues[j].diff) = {}
                => ~df.issues[j].violatesExistingData

\* An edit of a collection without entities was checked in a DB that holds
\* an entity of another collection.
C31_Witness ==
    /\ df.pc = "checked"
    /\ df.db # {}
    /\ \E j \in 1..Len(df.issues) : EntitiesOf(df.issues[j].diff) = {}

\* An update that introduces or narrows an enum and changes nothing else
EnumEdit(d) ==
    /\ B6(d)
    /\ ~(B3(d) \/ B4(d) \/ B5(d) \/ B8(d))

\* Some entity of the collection holds, at the path, a value that is not in
\* the new enum
HoldsValueOutsideEnum(d) ==
    \E e \in EntitiesOf(d) :
        \E v \in ValuesAt(e, d.attribute) \ {"null"} :
            EnumText(v) \notin d.changes.options.enum.enum.values

\* C32: for an edit that introduces or narrows an enum, at each check
\* violatesExistingData is true iff some entity of the collection holds at
\* that path, at the time of the check, a value that is not in the new enum.
C32_EnumCheckFollowsData ==
    df.pc = "checked"
        => \A j \in 1..Len(df.issues) :
              EnumEdit(df.issues[j].diff)
                => (df.issues[j].violatesExistingData
                        <=> HoldsValueOutsideEnum(df.issues[j].diff))

\* An enum edit is found safe by a check made after a write, when an
\* earlier check had found a violation; the DB holds an entity.
C32_Witness ==
    /\ df.pc = "checked"
    /\ df.was
    /\ Len(df.issues) = 1
    /\ EnumEdit(df.issues[1].diff)
    /\ ~df.issues[1].violatesExistingData
    /\ EntitiesOf(df.issues[1].diff) # {}

\* C33: for the delete of a non-optional attribute violatesExistingData is
\* true iff some entity of the collection has a current non-null value at
\* the deleted path; for the insert of a non-optional attribute it is true
\* iff some entity of the collection has no value at the new path.
C33_DeleteAndInsertCheckData ==
    df.pc = "checked"
        => \A j \in 1..Len(df.issues) :
              LET d == df.issues[j].diff IN
              /\ B1(d) =>
                    (df.issues[j].violatesExistingData
                        <=> \E e \in EntitiesOf(d) :
                                ValuesAt(e, d.attribute) \ {"null"} # {})
              /\ B2(d) =>
                    (df.issues[j].violatesExistingData
                        <=> \E e \in EntitiesOf(d) :
                                ValuesAt(e, d.attribute) = {})

\* A delete was checked against an entity that holds null at the path and
\* found safe.
C33_Witness ==
    /\ df.pc = "checked"
    /\ \E j \in 1..Len(df.issues) :
            /\ B1(df.issues[j].diff)
            /\ ~df.issues[j].violatesExistingData
            /\ \E e \in EntitiesOf(df.issues[j].diff) :
                    "null" \in ValuesAt(e, df.issues[j].diff.attribute)

\* C34: no public operation of a DB constructed with migrations reads or
\* writes the triple store before the migrate run of the constructor has
\* finished: an operation that is at the triple store has found
\* ensureMigrated settled
C34_NoAccessBeforeMigrated ==
    handle.pc = "tripleStore" => ensureMigratedSettled

\* C35: for a list ordered by strictly increasing version with each parent
\* below its version, and with every operation succeeding, running
\* migrate(list, 'up') a second time applies no operation and writes no
\* version: every migration is skipped and the store, schema version
\* included, stays as the first run left it
C35_SecondRunAppliesNothing ==
    handle.run = 1 =>
        /\ mig.pc \in {"loop", "resolved"}
        /\ mig.last \in {None, "skipped"}
        /\ store = handle.first
        /\ dbVersionOf(store.meta) = dbVersionOf(handle.first.meta)

\* The second run of a list of two migrations has resolved, the first run
\* having applied a migration
C35_Witness ==
    /\ handle.run = 1
    /\ mig.pc = "resolved"
    /\ Len(handle.migrations) = 2
    /\ handle.first # handle.initial
    /\ dbVersionOf(handle.first.meta) # dbVersionOf(handle.initial.meta)

\* C37: resolving the variables of a query for one operation leaves the
\* query object of the caller as it was built, at every nesting depth; the
\* query a later operation is given still holds the '$name' references, and
\* that operation resolves them with the variables it finds
C37_QueryObjectUnchanged ==
    /\ vs.held.built => vs.held.query = vs.held.original
    /\ vs.held.built /\ vs.fetch.pc # "none" =>
          /\ vs.fetch.query = vs.held.original
          /\ [error |-> vs.fetch.error, where |-> vs.fetch.where]
                = replaceVariablesInQuery(vs.fetch.atCall, vs.held.original)

\* The delivered entities of a collection pass every read-rule filter
PassReadRules(meta, collectionName, entities) ==
    \A e \in entities :
        \A statement \in RuleFilters(meta, collectionName, "read") :
            isOperatorSatisfied(e.entity, statement)

\* An entity of the collection that fails a read-rule filter
Withheld(meta, triples, collectionName) ==
    {id \in EntitiesOfCollection(triples, collectionName) :
        ~doesEntityObjMatchWhere(getEntity(triples, id),
                                 RuleFilters(meta, collectionName, "read"))}

\* C36: for a collection with read rules, what fetch, fetchById and a
\* subscription deliver, on the handle and inside a transaction, holds no
\* entity that fails a read-rule filter
C36_ReadRulesOnEveryReadPath ==
    HasRules(store.meta, handle.read.collectionName, "read") =>
        PassReadRules(store.meta, handle.read.collectionName,
                      handle.read.entities)

\* Inside a transaction, a fetch on a collection with read rules has
\* delivered an entity and withheld another, which fails the rules
C36_Witness ==
    /\ handle.read.name = "fetch"
    /\ handle.read.on = "tx"
    /\ HasRules(store.meta, "todos", "read")
    /\ handle.read.entities # {}
    /\ Withheld(store.meta, tx.work, "todos") # {}

----------------------------------------------------------------------------
(* Properties of useQuery *)

\* C38: fetchingLocal is true from creation, and again from each
\* updateQuery, until the subscription for the current query delivers
\* results or an error, and false from then on; updateQuery resets results
\* to undefined; a results callback clears error; an error callback sets
\* error and leaves results alone; fetching is fetchingLocal or
\* (isInitialFetch and fetchingRemote)
C38_FetchingLocalUntilCurrentDelivers ==
    /\ [](uq.fetchingLocal <=> ~uq.current)
    /\ [](fetching <=> (uq.fetchingLocal
                            \/ (uq.isInitialFetch /\ uq.fetchingRemote)))
    /\ [][UpdateQuery => uq.results' = 0 /\ uq.fetchingLocal']_vars
    /\ [][\A q \in QueryNumbers :
            /\ ResultsCallback(q) => uq.error' = 0 /\ uq.results' = q
            /\ ErrorCallback(q) =>
                    uq.error' = q /\ uq.results' = uq.results]_vars

\* C39: once updateQuery has replaced the query, the subscription of the
\* previous query is unsubscribed when the effects run; no results or error
\* of a previous query changes results, error or fetchingLocal, and no
\* isFirstTimeFetchingQuery answer for a previous query changes
\* isInitialFetch
C39_NothingStaleAfterUpdateQuery ==
    /\ [][(\E cleanup \in BOOLEAN : EffectsRun(cleanup)) =>
                uq.subs' = {uq.query}]_vars
    /\ [][\A q \in QueryNumbers \ {uq.query} :
            (ResultsCallback(q) \/ ErrorCallback(q)) =>
                /\ uq.results' = uq.results
                /\ uq.error' = uq.error
                /\ uq.fetchingLocal' = uq.fetchingLocal]_vars
    /\ [][\A q \in QueryNumbers \ {uq.query}, isFirstFetch \in BOOLEAN :
            FirstTimeAnswer(q, isFirstFetch) =>
                uq.isInitialFetch' = uq.isInitialFetch]_vars

====
